---- MODULE Spec2Model ----
(***************************************************************************)
(* A model of the TrueType loader and codepoint mapper of                  *)
(* include/glyph/glyph_truetype.h.                                         *)
(*                                                                         *)
(* A font file is a byte sequence.  The model serialises a structured      *)
(* description of a font (FontDesc) into the sfnt byte layout, and the     *)
(* operators that model the C functions read those bytes back exactly the  *)
(* way the C code does (memcpy + byte swap on a little-endian host, signed *)
(* conversions, linear scans).  The heap is a sequence of malloc'ed        *)
(* buffers; a pointer is an index into it and 0 is NULL.                   *)
(***************************************************************************)
EXTENDS Integers, Sequences, FiniteSets, TLC

VARIABLES
    fontFile,    \* the font on disk: [desc, bytes], the description and its serialisation
    heap,        \* malloc'ed font buffers: <<[bytes, frees]>>, pointer = index
    font,        \* the caller's glyph_font_t
    fontBefore,  \* the caller's glyph_font_t as it was when glyph_ttf_init was last entered
    loaded,      \* the caller holds a handle whose last load returned 1 and that it has not freed
    initStage,   \* the return statement by which glyph_ttf_init last returned
    ret,         \* the last call and what it returned
    ub,          \* the program has executed undefined behaviour
    img,         \* the caller's glyph_image_t: [width, height, data], data 0 (NULL) or its bytes
    file,        \* the bytes of the output file on disk
    wr,          \* the last image call and what it returned
    openFiles,   \* the number of FILE handles open
    crc32_table, \* static uint32_t crc32_table[256], each entry as its four bytes
    crc32_table_inited,  \* static int crc32_table_inited
    raster,      \* what the last call filled, when it was glyph_ttf_get_glyph_bitmap
    sdf,         \* the caller's bitmap, and the last call of glyph_ttf_get_glyph_sdf_bitmap on it
    zlib,        \* glyph_write_png between its filter loop and its IDAT chunk: raw, comp, positions
    threads,     \* the calls of crc32 in progress, one per thread: position and locals
    decoded,     \* a glyph's flag bytes and what the flag loop made of them
    watch        \* the stopwatch: the clock and the locals and globals of main

\* the state of the font loader, of the image codec and of the rasterizer
fontVars == <<fontFile, heap, font, fontBefore, loaded, initStage, ret, ub>>

imageVars == <<img, file, wr, openFiles, crc32_table, crc32_table_inited>>

glyphVars == <<raster, sdf>>

\* the state of the step-by-step views: the zlib stream, crc32 under threads, the
\* flag loop, the stopwatch
unitVars == <<zlib, threads, decoded, watch>>

vars == <<fontVars, imageVars, glyphVars, unitVars>>

(***************************************************************************)
(* Bounds of the model.                                                    *)
(***************************************************************************)
\* the number of buffers glyph_ttf_load_font_from_file allocates in one run
MaxLoads == 2

(***************************************************************************)
(* Bytes.                                                                  *)
(***************************************************************************)
Zeros(n) == [i \in 1..n |-> 0]

\* big-endian serialisation of a 16-bit and of a 32-bit value (two's complement)
U16(v) == <<(v \div 256) % 256, v % 256>>

U32(v) == <<(v \div 16777216) % 256, (v \div 65536) % 256, (v \div 256) % 256, v % 256>>

\* the byte at C offset off of a buffer; a read outside the buffer is not defined
U8(data, off) == data[off + 1]

\* off .. off+n-1 lies inside the buffer
Readable(data, off, n) == off >= 0 /\ off + n <= Len(data)

glyph__bswap16(val) == ((val * 256) % 65536) + (val \div 256)

\* a uint32_t is held as its four bytes, least significant first
glyph__bswap32(val) == <<val[4], val[3], val[2], val[1]>>

\* the conversion of a uint32_t to int (two's complement)
ToInt32(val) ==
    val[1] + 256 * val[2] + 65536 * val[3]
        + 16777216 * (IF val[4] >= 128 THEN val[4] - 256 ELSE val[4])

\* memcpy of 2 and of 4 bytes into an unsigned integer of a little-endian host
Memcpy16(data, off) == U8(data, off) + 256 * U8(data, off + 1)

Memcpy32(data, off) ==
    <<U8(data, off), U8(data, off + 1), U8(data, off + 2), U8(data, off + 3)>>

glyph_ttf__get16u(data, off) == glyph__bswap16(Memcpy16(data, off))

glyph_ttf__get16(data, off) ==
    LET v == glyph__bswap16(Memcpy16(data, off))
    IN  IF v >= 32768 THEN v - 65536 ELSE v

glyph_ttf__get32(data, off) == ToInt32(glyph__bswap32(Memcpy32(data, off)))

(***************************************************************************)
(* Tags and signatures, as ASCII bytes.                                    *)
(***************************************************************************)
TagCmap == <<99, 109, 97, 112>>
TagLoca == <<108, 111, 99, 97>>
TagHead == <<104, 101, 97, 100>>
TagGlyf == <<103, 108, 121, 102>>
TagHhea == <<104, 104, 101, 97>>
TagHmtx == <<104, 109, 116, 120>>
TagKern == <<107, 101, 114, 110>>
TagGPOS == <<71, 80, 79, 83>>

SigTtcf == <<116, 116, 99, 102>>
SigTtf  == <<0, 1, 0, 0>>
SigOtto == <<79, 84, 84, 79>>
SigTrue == <<116, 114, 117, 101>>


(***************************************************************************)
(* Offsets the code reads at.                                              *)
(***************************************************************************)
NumTablesOff == 4
TableDirOff == 12
DirEntrySize == 16
DirEntryOffsetOff == 8
IndexToLocFormatOff == 50
NumHMetricsOff == 34
UnitsPerEmOff == 18

(***************************************************************************)
(* Serialisation of a font description into an sfnt file.                  *)
(*                                                                         *)
(* A description d has                                                     *)
(*   sig        the 4 signature bytes                                      *)
(*   body       "full": a table directory and tables follow the signature; *)
(*              "none": the file is the 4 signature bytes alone            *)
(*   tags       the tables the directory lists                             *)
(*   kernFar    the directory gives kern an offset past the end of file    *)
(*   locFormat  head.indexToLocFormat                                      *)
(*   loca       the loca entries, as byte offsets into glyf                *)
(*   glyf       the bytes of the glyf table                                *)
(*   recs       the cmap encoding records <<[platform, encoding]>>         *)
(*   subs       the cmap subtables; record i points at subtable i          *)
(* A subtable s has format, first, glyphs (formats 0 and 6), segs and gia  *)
(* (format 4: segments [start, end, delta, gi] where gi < 0 is a direct    *)
(* segment and gi >= 0 the index in the glyph index array gia of the       *)
(* segment's first codepoint), groups (formats 12 and 13).                 *)
(***************************************************************************)
RECURSIVE Flatten(_)
Flatten(ss) ==
    IF Len(ss) = 0 THEN <<>>
    ELSE IF Len(ss) = 1 THEN ss[1]
    ELSE Flatten(SubSeq(ss, 1, Len(ss) \div 2)) \o Flatten(SubSeq(ss, (Len(ss) \div 2) + 1, Len(ss)))

RECURSIVE SumLen(_)
SumLen(ss) == IF ss = <<>> THEN 0 ELSE Len(Head(ss)) + SumLen(Tail(ss))

SegBytes4(s) ==
    LET n == Len(s.segs)
    IN  U16(4) \o U16(16 + 8 * n + 2 * Len(s.gia)) \o U16(0)
            \o U16(2 * n) \o U16(0) \o U16(0) \o U16(0)
            \o Flatten([i \in 1..n |-> U16(s.segs[i].end)])
            \o U16(0)
            \o Flatten([i \in 1..n |-> U16(s.segs[i].start)])
            \o Flatten([i \in 1..n |-> U16(s.segs[i].delta)])
            \o Flatten([i \in 1..n |->
                  IF s.segs[i].gi < 0 THEN U16(0)
                  ELSE U16(2 * (n - (i - 1)) + 2 * s.segs[i].gi)])
            \o Flatten([i \in 1..Len(s.gia) |-> U16(s.gia[i])])

SubBytes(s) ==
    CASE s.format = 0 ->
            U16(0) \o U16(6 + Len(s.glyphs)) \o U16(0) \o s.glyphs
      [] s.format = 6 ->
            U16(6) \o U16(10 + 2 * Len(s.glyphs)) \o U16(0)
                \o U16(s.first) \o U16(Len(s.glyphs))
                \o Flatten([i \in 1..Len(s.glyphs) |-> U16(s.glyphs[i])])
      [] s.format = 4 -> SegBytes4(s)
      [] s.format \in {12, 13} ->
            U16(s.format) \o U16(0) \o U32(16 + 12 * Len(s.groups)) \o U32(0)
                \o U32(Len(s.groups))
                \o Flatten([i \in 1..Len(s.groups) |->
                      U32(s.groups[i].start) \o U32(s.groups[i].end)
                          \o U32(s.groups[i].glyph)])
      [] OTHER -> U16(s.format) \o U16(8) \o U16(0) \o U16(0)

\* the offset of subtable i from the start of the cmap table
SubOffset(d, i) ==
    4 + 8 * Len(d.recs) + SumLen([j \in 1..(i - 1) |-> SubBytes(d.subs[j])])

CmapBytes(d) ==
    U16(0) \o U16(Len(d.recs))
        \o Flatten([i \in 1..Len(d.recs) |->
              U16(d.recs[i].platform) \o U16(d.recs[i].encoding)
                  \o U32(SubOffset(d, i))])
        \o Flatten([i \in 1..Len(d.subs) |-> SubBytes(d.subs[i])])

HeadBytes(d) ==
    [i \in 1..(IndexToLocFormatOff + 4) |->
        CASE i = UnitsPerEmOff + 1 -> d.upem \div 256
          [] i = UnitsPerEmOff + 2 -> d.upem % 256
          [] i = IndexToLocFormatOff + 2 -> d.locFormat
          [] OTHER -> 0]

HheaBytes(d) == Zeros(NumHMetricsOff) \o U16(Len(d.loca) - 1)

HmtxBytes(d) == Flatten([i \in 1..(Len(d.loca) - 1) |-> U16(500 + i) \o U16(0)])

LocaBytes(d) ==
    Flatten([i \in 1..Len(d.loca) |->
        IF d.locFormat = 0 THEN U16(d.loca[i] \div 2) ELSE U32(d.loca[i])])

\* the tables in the order they lie in the file, each <<tag, bytes>>
Tables(d) ==
    << <<TagHead, HeadBytes(d)>>, <<TagHhea, HheaBytes(d)>>, <<TagHmtx, HmtxBytes(d)>>,
       <<TagKern, Zeros(4)>>, <<TagGPOS, Zeros(4)>>, <<TagLoca, LocaBytes(d)>>,
       <<TagGlyf, d.glyf>>, <<TagCmap, CmapBytes(d)>> >>

DirEnd == TableDirOff + DirEntrySize * 8

TableOff(d, k) == DirEnd + SumLen([j \in 1..(k - 1) |-> Tables(d)[j][2]])

FileLen(d) == IF d.body = "none" THEN 4 ELSE TableOff(d, Len(Tables(d)) + 1)

\* the offset the directory states for table k
StatedOff(d, k) ==
    IF Tables(d)[k][1] = TagKern /\ d.kernFar THEN FileLen(d) + 1000 ELSE TableOff(d, k)

Listed(d) == SelectSeq([k \in 1..Len(Tables(d)) |-> k], LAMBDA k : Tables(d)[k][1] \in d.tags)

DirBytes(d) ==
    LET es == Flatten([i \in 1..Len(Listed(d)) |->
                 LET k == Listed(d)[i]
                 IN  Tables(d)[k][1] \o U32(0) \o U32(StatedOff(d, k))
                         \o U32(Len(Tables(d)[k][2]))])
    IN  es \o Zeros(DirEntrySize * 8 - Len(es))

FileBytes(d) ==
    IF d.body = "none" THEN d.sig
    ELSE d.sig \o U16(Len(Listed(d))) \o Zeros(6) \o DirBytes(d)
            \o Flatten([k \in 1..Len(Tables(d)) |-> Tables(d)[k][2]])

(***************************************************************************)
(* glyph_truetype.h: signature test, table directory, glyph_ttf_init.      *)
(***************************************************************************)
\* the signature test with the legacy "true" form left out
glyph_ttf__isfont_NoTrue(data, off) ==
    \/ U8(data, off) = 116 /\ U8(data, off + 1) = 116 /\ U8(data, off + 2) = 99
           /\ U8(data, off + 3) = 102
    \/ U8(data, off) = 0 /\ U8(data, off + 1) = 1 /\ U8(data, off + 2) = 0
           /\ U8(data, off + 3) = 0
    \/ U8(data, off) = 79 /\ U8(data, off + 1) = 84 /\ U8(data, off + 2) = 84
           /\ U8(data, off + 3) = 79

glyph_ttf__isfont(data, off) ==
    \/ U8(data, off) = 116 /\ U8(data, off + 1) = 116 /\ U8(data, off + 2) = 99
           /\ U8(data, off + 3) = 102
    \/ U8(data, off) = 0 /\ U8(data, off + 1) = 1 /\ U8(data, off + 2) = 0
           /\ U8(data, off + 3) = 0
    \/ U8(data, off) = 79 /\ U8(data, off + 1) = 84 /\ U8(data, off + 2) = 84
           /\ U8(data, off + 3) = 79
    \/ U8(data, off) = 116 /\ U8(data, off + 1) = 114 /\ U8(data, off + 2) = 117
           /\ U8(data, off + 3) = 101

\* the loop of glyph_ttf__find_table from entry i on
RECURSIVE FindTableFrom(_, _, _, _, _)
FindTableFrom(data, tabledir, tag, i, num_tables) ==
    IF i >= num_tables THEN 0
    ELSE LET loc == tabledir + DirEntrySize * i
         IN  IF U8(data, loc) = tag[1] /\ U8(data, loc + 1) = tag[2]
                    /\ U8(data, loc + 2) = tag[3] /\ U8(data, loc + 3) = tag[4]
             THEN glyph_ttf__get32(data, loc + DirEntryOffsetOff)
             ELSE FindTableFrom(data, tabledir, tag, i + 1, num_tables)

glyph_ttf__find_table(data, fontstart, tag) ==
    FindTableFrom(data, fontstart + TableDirOff, tag, 0,
                  glyph_ttf__get16u(data, fontstart + NumTablesOff))

\* the required-table test with hmtx forgotten
MissingRequired_NoHmtx(f) == f.cmap = 0 \/ f.head = 0 \/ f.hhea = 0

\* if (!font->cmap || !font->head || !font->hhea || !font->hmtx) return 0;
MissingRequired(f) == f.cmap = 0 \/ f.head = 0 \/ f.hhea = 0 \/ f.hmtx = 0

\* if (font->glyf) { if (!font->loca) return 0; }
MissingLoca(f) == f.glyf # 0 /\ f.loca = 0

\* the encoding-record test accepting every platform-3 encoding
IsUnicodeRecord_AnyWindows(platformID, platformSpecificID) ==
    platformID = 0 \/ platformID = 3

IsUnicodeRecord(platformID, platformSpecificID) ==
    platformID = 0 \/ (platformID = 3 /\ (platformSpecificID = 1 \/ platformSpecificID = 10))

\* the scan of the encoding records without the break: the last match wins
RECURSIVE SelectCmapFrom_NoBreak(_, _, _, _, _)
SelectCmapFrom_NoBreak(data, cmap_offset, i, numTables, index_map) ==
    IF i >= numTables THEN index_map
    ELSE LET platformID == glyph_ttf__get16u(data, cmap_offset + 4 + 8 * i)
             platformSpecificID == glyph_ttf__get16u(data, cmap_offset + 4 + 8 * i + 2)
             offset_sub == glyph_ttf__get32(data, cmap_offset + 4 + 8 * i + 4)
         IN  IF IsUnicodeRecord(platformID, platformSpecificID)
             THEN SelectCmapFrom_NoBreak(data, cmap_offset, i + 1, numTables,
                                         cmap_offset + offset_sub)
             ELSE SelectCmapFrom_NoBreak(data, cmap_offset, i + 1, numTables, index_map)

\* the scan of the encoding records in glyph_ttf_init from record i on
RECURSIVE SelectCmapFrom(_, _, _, _, _)
SelectCmapFrom(data, cmap_offset, i, numTables, index_map) ==
    IF i >= numTables THEN index_map
    ELSE LET platformID == glyph_ttf__get16u(data, cmap_offset + 4 + 8 * i)
             platformSpecificID == glyph_ttf__get16u(data, cmap_offset + 4 + 8 * i + 2)
             offset_sub == glyph_ttf__get32(data, cmap_offset + 4 + 8 * i + 4)
         IN  IF IsUnicodeRecord(platformID, platformSpecificID)
             THEN cmap_offset + offset_sub
             ELSE SelectCmapFrom(data, cmap_offset, i + 1, numTables, index_map)

\* the caller's glyph_font_t after glyph_ttf_init(font, data, offset), its return
\* value and the return statement taken; ptr is the pointer value of data
glyph_ttf_init(f, ptr, data, offset) ==
    LET f1 == [f EXCEPT !.data = ptr, !.fontstart = offset]
    IN  IF ~glyph_ttf__isfont(data, offset)
        THEN [font |-> f1, result |-> 0, stage |-> "signature"]
        ELSE
        LET f2 == [f1 EXCEPT
                     !.cmap = glyph_ttf__find_table(data, offset, TagCmap),
                     !.loca = glyph_ttf__find_table(data, offset, TagLoca),
                     !.head = glyph_ttf__find_table(data, offset, TagHead),
                     !.glyf = glyph_ttf__find_table(data, offset, TagGlyf),
                     !.hhea = glyph_ttf__find_table(data, offset, TagHhea),
                     !.hmtx = glyph_ttf__find_table(data, offset, TagHmtx),
                     !.kern = glyph_ttf__find_table(data, offset, TagKern),
                     !.gpos = glyph_ttf__find_table(data, offset, TagGPOS)]
        IN  IF MissingRequired(f2)
            THEN [font |-> f2, result |-> 0, stage |-> "required"]
            ELSE IF MissingLoca(f2)
            THEN [font |-> f2, result |-> 0, stage |-> "loca"]
            ELSE
            LET f3 == [f2 EXCEPT !.indexToLocFormat =
                          glyph_ttf__get16(data, f2.head + IndexToLocFormatOff)]
                index_map == SelectCmapFrom(data, f2.cmap, 0,
                                 glyph_ttf__get16u(data, f2.cmap + 2), 0)
            IN  IF index_map = 0
                THEN [font |-> f3, result |-> 0, stage |-> "cmap"]
                ELSE [font |-> [f3 EXCEPT !.index_map = index_map,
                                  !.numGlyphs = glyph_ttf__get16u(data, f3.hhea + NumHMetricsOff)],
                      result |-> 1, stage |-> "ok"]

(***************************************************************************)
(* glyph_ttf_find_glyph_index.                                             *)
(***************************************************************************)
\* the format-0 branch
Format0Lookup(data, index_map, codepoint) ==
    LET bytes == glyph_ttf__get16u(data, index_map + 2)
    IN  IF codepoint < bytes - 6 THEN U8(data, index_map + 6 + codepoint) ELSE 0

\* the format-6 branch with the upper bound off by one
Format6Lookup_OffByOne(data, index_map, codepoint) ==
    LET first == glyph_ttf__get16u(data, index_map + 6)
        count == glyph_ttf__get16u(data, index_map + 8)
    IN  IF codepoint >= first /\ codepoint <= first + count
        THEN glyph_ttf__get16u(data, index_map + 10 + (codepoint - first) * 2)
        ELSE 0

\* the format-6 branch
Format6Lookup(data, index_map, codepoint) ==
    LET first == glyph_ttf__get16u(data, index_map + 6)
        count == glyph_ttf__get16u(data, index_map + 8)
    IN  IF codepoint >= first /\ codepoint < first + count
        THEN glyph_ttf__get16u(data, index_map + 10 + (codepoint - first) * 2)
        ELSE 0

\* what a matching format-4 segment yields, with the raw entry 0 not kept unmapped
Format4Segment_NoZeroTest(data, idDelta, idRangeOffset, i, start, codepoint) ==
    LET delta == glyph_ttf__get16(data, idDelta + i * 2)
        rangeOffset == glyph_ttf__get16u(data, idRangeOffset + i * 2)
    IN  IF rangeOffset = 0
        THEN (codepoint + delta) % 65536
        ELSE LET glyphIndex == glyph_ttf__get16u(data,
                     idRangeOffset + i * 2 + rangeOffset + (codepoint - start) * 2)
             IN  (glyphIndex + delta) % 65536

\* what a matching format-4 segment yields (x & 0xFFFF of a two's complement int is x mod 65536)
Format4Segment(data, idDelta, idRangeOffset, i, start, codepoint) ==
    LET delta == glyph_ttf__get16(data, idDelta + i * 2)
        rangeOffset == glyph_ttf__get16u(data, idRangeOffset + i * 2)
    IN  IF rangeOffset = 0
        THEN (codepoint + delta) % 65536
        ELSE LET glyphIndex == glyph_ttf__get16u(data,
                     idRangeOffset + i * 2 + rangeOffset + (codepoint - start) * 2)
             IN  IF glyphIndex # 0 THEN (glyphIndex + delta) % 65536 ELSE 0

\* the segment loop of the format-4 branch from segment i on
RECURSIVE Format4From(_, _, _, _, _)
Format4From(data, index_map, segcount, i, codepoint) ==
    LET endCount == index_map + 14
        startCount == endCount + segcount * 2 + 2
        idDelta == startCount + segcount * 2
        idRangeOffset == idDelta + segcount * 2
    IN  IF i >= segcount THEN 0
        ELSE LET end == glyph_ttf__get16u(data, endCount + i * 2)
             IN  IF codepoint <= end
                 THEN LET start == glyph_ttf__get16u(data, startCount + i * 2)
                      IN  IF codepoint >= start
                          THEN Format4Segment(data, idDelta, idRangeOffset, i, start, codepoint)
                          ELSE Format4From(data, index_map, segcount, i + 1, codepoint)
                 ELSE Format4From(data, index_map, segcount, i + 1, codepoint)

Format4Lookup(data, index_map, codepoint) ==
    Format4From(data, index_map, glyph_ttf__get16u(data, index_map + 6) \div 2, 0, codepoint)

\* the group loop of the format-12/13 branch from group i on
RECURSIVE Format12From(_, _, _, _, _, _)
Format12From(data, index_map, format, nGroups, i, codepoint) ==
    IF i >= nGroups THEN 0
    ELSE LET startCharCode == glyph_ttf__get32(data, index_map + 16 + i * 12)
             endCharCode == glyph_ttf__get32(data, index_map + 16 + i * 12 + 4)
         IN  IF codepoint >= startCharCode /\ codepoint <= endCharCode
             THEN IF format = 12
                  THEN glyph_ttf__get32(data, index_map + 16 + i * 12 + 8)
                           + (codepoint - startCharCode)
                  ELSE glyph_ttf__get32(data, index_map + 16 + i * 12 + 8)
             ELSE Format12From(data, index_map, format, nGroups, i + 1, codepoint)

Format12Lookup(data, index_map, format, codepoint) ==
    Format12From(data, index_map, format, glyph_ttf__get32(data, index_map + 12), 0, codepoint)

glyph_ttf_find_glyph_index(f, data, codepoint) ==
    LET index_map == f.index_map
        format == glyph_ttf__get16u(data, index_map)
    IN  CASE format = 0 -> Format0Lookup(data, index_map, codepoint)
          [] format = 6 -> Format6Lookup(data, index_map, codepoint)
          [] format = 4 -> Format4Lookup(data, index_map, codepoint)
          [] format = 12 \/ format = 13 -> Format12Lookup(data, index_map, format, codepoint)
          [] OTHER -> 0

(***************************************************************************)
(* float arithmetic.  A float (IEEE 754 binary32) is [s, m, e]: the value  *)
(* s * m * 2^e with s = 1 or -1 and 2^23 <= m < 2^24, or m = 0 for zero.   *)
(* Every operation rounds its exact result to the nearest float, ties to   *)
(* the even mantissa.  Infinities, NaN and subnormals do not occur for the *)
(* values the model computes with.                                         *)
(***************************************************************************)
Pow2(k) == 2 ^ k

\* the number of binary digits of n >= 0
RECURSIVE BitLen(_)
BitLen(n) ==
    IF n = 0 THEN 0
    ELSE IF n >= 65536 THEN 16 + BitLen(n \div 65536)
    ELSE IF n >= 256 THEN 8 + BitLen(n \div 256)
    ELSE IF n >= 16 THEN 4 + BitLen(n \div 16)
    ELSE 1 + BitLen(n \div 2)

F32Zero == [s |-> 1, m |-> 0, e |-> 0]

\* the float nearest to s * (M + f) * 2^e, where M < 2^31 and 0 <= f < 1 is a
\* discarded fraction that is non-zero iff sticky; M has 26 bits or more
\* whenever sticky
F32Round(s, M, e, sticky) ==
    IF M = 0 THEN F32Zero
    ELSE LET bl == BitLen(M)
         IN  IF bl <= 24
             THEN [s |-> s, m |-> M * Pow2(24 - bl), e |-> e - (24 - bl)]
             ELSE LET sh == bl - 24
                      q == M \div Pow2(sh)
                      r == M % Pow2(sh)
                      half == Pow2(sh - 1)
                      up == r > half \/ (r = half /\ (sticky \/ q % 2 = 1))
                      m1 == IF up THEN q + 1 ELSE q
                  IN  IF m1 = Pow2(24)
                      THEN [s |-> s, m |-> Pow2(23), e |-> e + sh + 1]
                      ELSE [s |-> s, m |-> m1, e |-> e + sh]

\* the conversion of an int to float
F32FromInt(n) == F32Round(IF n < 0 THEN -1 ELSE 1, IF n < 0 THEN -n ELSE n, 0, FALSE)

F32Neg(a) == IF a.m = 0 THEN a ELSE [a EXCEPT !.s = -a.s]

\* fabsf
F32Abs(a) == [a EXCEPT !.s = 1]

\* a * b: the 48-bit product of the mantissas is H * 2^24 + L, formed from 12-bit
\* halves; its leading 30 bits are rounded
F32Mul(a, b) ==
    IF a.m = 0 \/ b.m = 0 THEN F32Zero
    ELSE LET a1 == a.m \div 4096
             a0 == a.m % 4096
             b1 == b.m \div 4096
             b0 == b.m % 4096
             mid == a1 * b0 + a0 * b1
             low == a0 * b0 + (mid % 4096) * 4096
             L == low % Pow2(24)
             H == a1 * b1 + (mid \div 4096) + (low \div Pow2(24))
             t == BitLen(H) - 6
             M == H * Pow2(24 - t) + (L \div Pow2(t))
         IN  F32Round(a.s * b.s, M, a.e + b.e + t, L % Pow2(t) # 0)

\* n more bits of the quotient qr[1], remainder qr[2], of a division by d: one
\* bit, or the first half of the bits and then the rest
RECURSIVE DivBits(_, _, _)
DivBits(qr, d, n) ==
    IF n = 0 \/ qr[1] < 0 THEN qr
    ELSE IF n = 1
    THEN IF 2 * qr[2] >= d THEN <<2 * qr[1] + 1, 2 * qr[2] - d>> ELSE <<2 * qr[1], 2 * qr[2]>>
    ELSE DivBits(DivBits(qr, d, n \div 2), d, n - (n \div 2))

\* a / b for b # 0: 26 fraction bits of the quotient of the mantissas, rounded
F32Div(a, b) ==
    IF a.m = 0 THEN F32Zero
    ELSE LET qr == DivBits(<<a.m \div b.m, a.m % b.m>>, b.m, 26)
         IN  F32Round(a.s * b.s, qr[1], a.e - b.e - 26, qr[2] # 0)

\* a + b: the operand of smaller exponent is aligned to 6 bits below the other,
\* what is shifted out is remembered as lost
F32Add(a, b) ==
    IF a.m = 0 THEN b
    ELSE IF b.m = 0 THEN a
    ELSE LET big == IF a.e >= b.e THEN a ELSE b
             small == IF a.e >= b.e THEN b ELSE a
             d == big.e - small.e
         IN  IF d > 26 THEN big
             ELSE LET A == big.m * 64
                      B == IF d <= 6 THEN small.m * Pow2(6 - d) ELSE small.m \div Pow2(d - 6)
                      lost == d > 6 /\ small.m % Pow2(d - 6) # 0
                      S == IF big.s = small.s THEN A + B
                           ELSE A - B - (IF lost THEN 1 ELSE 0)
                  IN  IF S >= 0 THEN F32Round(big.s, S, big.e - 6, lost)
                      ELSE F32Round(-big.s, -S, big.e - 6, lost)

F32Sub(a, b) == F32Add(a, F32Neg(b))

\* a < b
F32Less(a, b) ==
    IF a.s # b.s THEN a.s < b.s
    ELSE IF a.m = 0 /\ b.m = 0 THEN FALSE
    ELSE IF a.m = 0 THEN b.s = 1
    ELSE IF b.m = 0 THEN a.s = -1
    ELSE IF a.s = 1 THEN a.e < b.e \/ (a.e = b.e /\ a.m < b.m)
    ELSE a.e > b.e \/ (a.e = b.e /\ a.m > b.m)

\* (int)floorf(a), (int)ceilf(a) and (int)a, for |a| < 2^31
F32FloorInt(a) ==
    IF a.e >= 0 THEN a.s * a.m * Pow2(a.e)
    ELSE IF -a.e >= 31 THEN (IF a.s = -1 /\ a.m # 0 THEN -1 ELSE 0)
    ELSE LET q == a.m \div Pow2(-a.e)
             r == a.m % Pow2(-a.e)
         IN  IF a.s = 1 THEN q ELSE -q - (IF r # 0 THEN 1 ELSE 0)

F32CeilInt(a) == -F32FloorInt(F32Neg(a))

F32TruncInt(a) == IF a.s = 1 THEN F32FloorInt(a) ELSE F32CeilInt(a)

(***************************************************************************)
(* Glyph location and bitmap header.                                       *)
(***************************************************************************)
\* the value glyph_ttf__get_glyph_offset returns for a glyph without outline
EmptyGlyph == -1

\* the width in bytes of one loca entry
LocaEntrySize(f) == IF f.indexToLocFormat # 0 THEN 4 ELSE 2

\* loca entry number k (0 or 1) of the pair read for glyph_index, as a byte offset
LocaEntry(f, data, glyph_index, k) ==
    LET offset == f.loca + glyph_index * LocaEntrySize(f)
    IN  IF f.indexToLocFormat # 0
        THEN glyph_ttf__get32(data, offset + 4 * k)
        ELSE glyph_ttf__get16u(data, offset + 2 * k) * 2

\* the glyph location with the pair of entries never compared
glyph_ttf__get_glyph_offset_NoEmpty(f, data, glyph_index) ==
    f.glyf + LocaEntry(f, data, glyph_index, 0)

glyph_ttf__get_glyph_offset(f, data, glyph_index) ==
    LET g1 == f.glyf + LocaEntry(f, data, glyph_index, 0)
        g2 == f.glyf + LocaEntry(f, data, glyph_index, 1)
    IN  IF g1 = g2 THEN EmptyGlyph ELSE g1

\* the bytes glyph_ttf__get_glyph_offset reads lie inside the buffer
OffsetReadable(f, data, glyph_index) ==
    Readable(data, f.loca + glyph_index * LocaEntrySize(f), 2 * LocaEntrySize(f))

\* the glyph header (10 bytes at g) lies inside the buffer
HeaderReadable(f, data, glyph_index) ==
    /\ OffsetReadable(f, data, glyph_index)
    /\ LET g == glyph_ttf__get_glyph_offset(f, data, glyph_index)
       IN  g >= 0 => Readable(data, g, 10)

\* (int)(a * s) in place of (int)ceilf(a * s)
CeilScaled_Trunc(a, s) == F32TruncInt(F32Mul(F32FromInt(a), s))

\* (int)ceilf(a * s) and (int)(a * s) for an int a and a float s
CeilScaled(a, s) == F32CeilInt(F32Mul(F32FromInt(a), s))

TruncScaled(a, s) == F32TruncInt(F32Mul(F32FromInt(a), s))

\* glyph_ttf_scale_for_pixel_height: pixels / unitsPerEm, for unitsPerEm # 0
glyph_ttf_scale_for_pixel_height(f, data, pixels) ==
    LET unitsPerEm == glyph_ttf__get16u(data, f.head + UnitsPerEmOff)
    IN  F32Div(pixels, F32FromInt(unitsPerEm))

\* the out-parameters of glyph_ttf_get_glyph_bitmap: written, and their values
NoBitmap == [bitmap |-> 0, written |-> TRUE, width |-> 0, height |-> 0, xoff |-> 0, yoff |-> 0]

Unwritten == [bitmap |-> 0, written |-> FALSE, width |-> 0, height |-> 0, xoff |-> 0, yoff |-> 0]

\* glyph_ttf_get_glyph_bitmap: whether a bitmap is returned (1) or NULL (0), and
\* *width, *height, *xoff, *yoff; allocOk says whether its allocations succeed
glyph_ttf_get_glyph_bitmap(f, data, glyph_index, scale_x, scale_y, allocOk) ==
    LET g == glyph_ttf__get_glyph_offset(f, data, glyph_index)
    IN  IF g < 0 THEN NoBitmap
        ELSE
        LET numberOfContours == glyph_ttf__get16(data, g)
        IN  IF numberOfContours > 0
            THEN LET xMin == glyph_ttf__get16(data, g + 2)
                     yMin == glyph_ttf__get16(data, g + 4)
                     xMax == glyph_ttf__get16(data, g + 6)
                     yMax == glyph_ttf__get16(data, g + 8)
                     w == CeilScaled(xMax - xMin, scale_x) + 1
                     h == CeilScaled(yMax - yMin, scale_y) + 1
                 IN  IF w <= 0 \/ h <= 0 THEN NoBitmap
                     ELSE IF ~allocOk THEN Unwritten
                     ELSE [bitmap |-> 1, written |-> TRUE, width |-> w, height |-> h,
                           xoff |-> TruncScaled(xMin, scale_x),
                           yoff |-> TruncScaled(yMax, scale_y)]
            ELSE NoBitmap

(***************************************************************************)
(* Outline decoding (glyph_ttf_get_glyph_bitmap, lines 442-547).           *)
(***************************************************************************)
\* flag & bit, for a bit 1, 2, 4, 8, 16 or 32
FlagBit(flag, bit) == (flag \div bit) % 2 = 1

\* data[off]; a read outside the buffer is undefined and yields 0 here, and
\* OutlineReadable tells whether one happened
Rd8(data, off) == IF Readable(data, off, 1) THEN U8(data, off) ELSE 0

Rd16u(data, off) == IF Readable(data, off, 2) THEN glyph_ttf__get16u(data, off) ELSE 0

Rd16(data, off) == IF Readable(data, off, 2) THEN glyph_ttf__get16(data, off) ELSE 0

\* the flag loop: point_flags filled up to n_points, and data_index after it
RECURSIVE ReadFlags(_, _, _, _)
ReadFlags(data, data_index, point_flags, n_points) ==
    IF Len(point_flags) >= n_points
    THEN [point_flags |-> point_flags, data_index |-> data_index]
    ELSE LET flag == Rd8(data, data_index)
         IN  IF FlagBit(flag, 8)
             THEN LET repeat_count == Rd8(data, data_index + 1)
                      room == n_points - Len(point_flags) - 1
                      r == IF repeat_count < room THEN repeat_count ELSE room
                  IN  ReadFlags(data, data_index + 2,
                                point_flags \o [k \in 1..(r + 1) |-> flag], n_points)
             ELSE ReadFlags(data, data_index + 1, Append(point_flags, flag), n_points)

\* a coordinate loop: short is the bit saying the delta is one byte, same the
\* bit saying it is positive (short) or absent (long); v is the running value
RECURSIVE ReadCoords(_, _, _, _, _, _, _)
ReadCoords(data, data_index, point_flags, short, same, v, coords) ==
    IF Len(coords) >= Len(point_flags)
    THEN [coords |-> coords, data_index |-> data_index]
    ELSE LET flag == point_flags[Len(coords) + 1]
         IN  IF FlagBit(flag, short)
             THEN LET d == Rd8(data, data_index)
                      nv == IF FlagBit(flag, same) THEN v + d ELSE v - d
                  IN  ReadCoords(data, data_index + 1, point_flags, short, same, nv,
                                 Append(coords, nv))
             ELSE IF ~FlagBit(flag, same)
             THEN LET nv == v + Rd16(data, data_index)
                  IN  ReadCoords(data, data_index + 2, point_flags, short, same, nv,
                                 Append(coords, nv))
             ELSE ReadCoords(data, data_index, point_flags, short, same, v,
                             Append(coords, v))

\* the tables of a simple glyph at g with numberOfContours contours: the
\* flags and coordinates of its lastEndPt + 1 points
GlyphPoints(data, g, numberOfContours) ==
    LET endPtsOfContours == g + 10
        instructionLength == Rd16u(data, endPtsOfContours + numberOfContours * 2)
        instructions == endPtsOfContours + numberOfContours * 2 + 2
        flags_start == instructions + instructionLength
        lastEndPt == Rd16u(data, endPtsOfContours + (numberOfContours - 1) * 2)
        n_points == lastEndPt + 1
        fl == ReadFlags(data, flags_start, <<>>, n_points)
        xs == ReadCoords(data, fl.data_index, fl.point_flags, 2, 16, 0, <<>>)
        ys == ReadCoords(data, xs.data_index, fl.point_flags, 4, 32, 0, <<>>)
    IN  [n_points |-> n_points, point_flags |-> fl.point_flags, x_coords |-> xs.coords,
         y_coords |-> ys.coords, data_index |-> ys.data_index]

\* 0.5f and 0.001f
F32Half == [s |-> 1, m |-> 8388608, e |-> -24]

F32Milli == [s |-> 1, m |-> 8589935, e |-> -33]

F32One == [s |-> 1, m |-> 8388608, e |-> -23]

\* buf[p] for a buffer of Len(buf) cells: a cell past its end holds whatever
\* the heap holds there
Cell(buf, p, garbage) == IF p < Len(buf) THEN buf[p + 1] ELSE garbage

\* a glyph_point_t
Point(x, y, on_curve) == [x |-> x, y |-> y, on_curve |-> on_curve]

\* the point loop of one contour (lines 529-543) from point p on; box is
\* <<xMin, yMin, xMax, yMax>>
RECURSIVE ContourFrom(_, _, _, _, _, _, _, _, _)
ContourFrom(pts, garbage, box, scale_x, scale_y, start_pt, end_pt, p, contour) ==
    IF p > end_pt THEN contour
    ELSE LET next_p == IF p = end_pt THEN start_pt ELSE p + 1
             xp == Cell(pts.x_coords, p, garbage)
             yp == Cell(pts.y_coords, p, garbage)
             xn == Cell(pts.x_coords, next_p, garbage)
             yn == Cell(pts.y_coords, next_p, garbage)
             on == Cell(pts.point_flags, p, garbage) % 2
             onNext == Cell(pts.point_flags, next_p, garbage) % 2
             pt == Point(F32Mul(F32FromInt(xp - box[1]), scale_x),
                         F32Mul(F32FromInt(box[4] - yp), scale_y), on)
             mid == Point(F32Mul(F32Sub(F32Mul(F32FromInt(xp + xn), F32Half),
                                        F32FromInt(box[1])), scale_x),
                          F32Mul(F32Sub(F32FromInt(box[4]),
                                        F32Mul(F32FromInt(yp + yn), F32Half)), scale_y), 1)
             out == IF on = 0 /\ onNext = 0 THEN <<pt, mid>> ELSE <<pt>>
         IN  ContourFrom(pts, garbage, box, scale_x, scale_y, start_pt, end_pt, p + 1,
                         contour \o out)

\* the first and the last point of contour c (0-based)
StartPt(data, g, c) == IF c = 0 THEN 0 ELSE Rd16u(data, g + 10 + (c - 1) * 2) + 1

EndPt(data, g, c) == Rd16u(data, g + 10 + c * 2)

\* contours[c] with contour_sizes[c] as its length (lines 517-546): empty when
\* its malloc fails; a negative contour_len asks malloc for more than there is
Contour(data, g, pts, garbage, box, scale_x, scale_y, c, mallocOk) ==
    LET start_pt == StartPt(data, g, c)
        end_pt == EndPt(data, g, c)
        contour_len == end_pt - start_pt + 1
    IN  IF contour_len < 0 \/ (contour_len > 0 /\ ~mallocOk) THEN <<>>
        ELSE ContourFrom(pts, garbage, box, scale_x, scale_y, start_pt, end_pt, start_pt, <<>>)

\* contour c reads a cell of x_coords, y_coords and point_flags that no loop wrote
ReadsUnwritten(data, g, pts, c, mallocOk) ==
    /\ StartPt(data, g, c) <= EndPt(data, g, c)
    /\ mallocOk
    /\ EndPt(data, g, c) >= pts.n_points

(***************************************************************************)
(* The rasterizer (glyph_ttf__add_edge, glyph_ttf__rasterize_shape).       *)
(* accum and bitmap are sequences of w * h cells, cell y * w + x at        *)
(* position y * w + x + 1.                                                 *)
(***************************************************************************)
\* if (v < lo) v = lo, and if (v > hi) v = hi
ClampLow(v, lo) == IF F32Less(v, lo) THEN lo ELSE v

ClampHigh(v, hi) == IF F32Less(hi, v) THEN hi ELSE v

\* accum[y * w + x_int] += v, when x_int is a column of the bitmap
AddCell(accum, w, y, x_int, v) ==
    IF x_int >= 0 /\ x_int < w
    THEN [accum EXCEPT ![y * w + x_int + 1] = F32Add(@, v)]
    ELSE accum

\* one pass of the row loop of glyph_ttf__add_edge (lines 323-336), sy0 and sy1
\* already clamped
EdgeRow(accum, w, x0, y0, dx, dy, dir, y, sy0, sy1) ==
    AddCell(accum, w, y,
            F32FloorInt(F32Add(x0, F32Div(F32Mul(dx, F32Sub(F32Mul(F32Add(sy0, sy1), F32Half),
                                                            y0)), dy))),
            F32Mul(F32Sub(sy1, sy0), F32FromInt(dir)))

\* the row loop of glyph_ttf__add_edge over the rows y .. y_end - 1, in order:
\* the first half of them and then the rest
RECURSIVE EdgeRows(_, _, _, _, _, _, _, _, _, _)
EdgeRows(accum, w, x0, y0, y1, dx, dy, dir, y, y_end) ==
    IF y >= y_end \/ Len(accum) = 0 THEN accum
    ELSE IF y + 1 = y_end
    THEN EdgeRow(accum, w, x0, y0, dx, dy, dir, y,
                 ClampLow(F32FromInt(y), y0), ClampHigh(F32FromInt(y + 1), y1))
    ELSE EdgeRows(EdgeRows(accum, w, x0, y0, y1, dx, dy, dir, y, (y + y_end) \div 2),
                  w, x0, y0, y1, dx, dy, dir, (y + y_end) \div 2, y_end)

\* glyph_ttf__add_edge from line 315 on, for y0 <= y1
ClippedEdge(accum, w, h, x0, y0, x1, y1, dir, y_start, y_end) ==
    IF y_end <= 0 \/ y_start >= h THEN accum
    ELSE EdgeRows(accum, w, x0, y0, y1, F32Sub(x1, x0), F32Sub(y1, y0), dir,
                  IF y_start < 0 THEN 0 ELSE y_start, IF y_end > h THEN h ELSE y_end)

glyph_ttf__add_edge(accum, w, h, x0, y0, x1, y1) ==
    IF F32Less(F32Abs(F32Sub(y1, y0)), F32Milli) THEN accum
    ELSE IF F32Less(y1, y0)
    THEN ClippedEdge(accum, w, h, x1, y1, x0, y0, -1, F32FloorInt(y1), F32CeilInt(y0))
    ELSE ClippedEdge(accum, w, h, x0, y0, x1, y1, 1, F32FloorInt(y0), F32CeilInt(y1))

\* the number of line segments a curve is cut into
CurveSteps == 32

F32Two == [s |-> 1, m |-> 8388608, e |-> -22]

\* b0 * a + b1 * b + b2 * c of lines 374-379, for v = 1 - u
Bezier(a, b, c, u, v) ==
    F32Add(F32Add(F32Mul(F32Mul(v, v), a), F32Mul(F32Mul(F32Mul(F32Two, v), u), b)),
           F32Mul(F32Mul(u, u), c))

CurveAt(a, b, c, u) == Bezier(a, b, c, u, F32Sub(F32One, u))

\* <<x, y>> of step t of the curve p0, p1, p2 (lines 373-379); prev_x, prev_y of
\* step t + 1, which for t = 0 are those of p0
CurvePoint(p0, p1, p2, t) ==
    IF t = 0 THEN <<p0.x, p0.y>>
    ELSE <<CurveAt(p0.x, p1.x, p2.x, F32Div(F32FromInt(t), F32FromInt(CurveSteps))),
           CurveAt(p0.y, p1.y, p2.y, F32Div(F32FromInt(t), F32FromInt(CurveSteps)))>>

\* one pass of the step loop: the edge from prev to the point of this step
CurveStep(accum, w, h, prev, pt) ==
    glyph_ttf__add_edge(accum, w, h, prev[1], prev[2], pt[1], pt[2])

\* the steps t .. last of the step loop of a quadratic curve p0, p1, p2, in
\* order: the first half of them and then the rest
RECURSIVE CurveFrom(_, _, _, _, _, _, _, _)
CurveFrom(accum, w, h, p0, p1, p2, t, last) ==
    IF t > last \/ Len(accum) = 0 THEN accum
    ELSE IF t = last
    THEN CurveStep(accum, w, h, CurvePoint(p0, p1, p2, t - 1), CurvePoint(p0, p1, p2, t))
    ELSE CurveFrom(CurveFrom(accum, w, h, p0, p1, p2, t, (t + last) \div 2), w, h, p0, p1,
                   p2, ((t + last) \div 2) + 1, last)

\* the end point of the curve p0, p1: q, or the point half way from p1 to q when q
\* is off the curve (lines 363-366)
CurveEnd(p1, q) ==
    IF q.on_curve = 1 THEN q
    ELSE Point(F32Mul(F32Add(p1.x, q.x), F32Half), F32Mul(F32Add(p1.y, q.y), F32Half), 0)

\* the while loop over one contour of n_points >= 2 points, from point i on; p0,
\* p1 and q are points[i], points[next] and points[next2]
RECURSIVE ShapeFrom(_, _, _, _, _)
RECURSIVE ShapeStep(_, _, _, _, _, _, _, _)
ShapeStep(accum, w, h, points, i, p0, p1, q) ==
    IF p0.on_curve = 1 /\ p1.on_curve = 1
    THEN ShapeFrom(glyph_ttf__add_edge(accum, w, h, p0.x, p0.y, p1.x, p1.y), w, h, points,
                   i + 1)
    ELSE IF p0.on_curve = 1
    THEN ShapeFrom(CurveFrom(accum, w, h, p0, p1, CurveEnd(p1, q), 1, CurveSteps), w, h,
                   points, IF q.on_curve = 1 THEN i + 2 ELSE i + 1)
    ELSE ShapeFrom(accum, w, h, points, i + 1)

ShapeFrom(accum, w, h, points, i) ==
    IF i >= Len(points) \/ Len(accum) = 0 THEN accum
    ELSE ShapeStep(accum, w, h, points, i, points[i + 1],
                   points[((i + 1) % Len(points)) + 1], points[((i + 2) % Len(points)) + 1])

\* the same with the test of line 348 left out
Rasterized_All(contours) == 1..Len(contours)

\* the contours glyph_ttf__rasterize_shape accumulates edges for
Rasterized(contours) == {c \in 1..Len(contours) : Len(contours[c]) >= 2}

\* the contour loop from contour c (1-based) on
RECURSIVE ContoursFrom(_, _, _, _, _)
ContoursFrom(accum, w, h, contours, c) ==
    IF c > Len(contours) \/ Len(accum) = 0 THEN accum
    ELSE ContoursFrom(IF c \in Rasterized(contours)
                      THEN ShapeFrom(accum, w, h, contours[c], 0)
                      ELSE accum,
                      w, h, contours, c + 1)

\* 255.0f
F32Byte == [s |-> 1, m |-> 16711680, e |-> -16]

\* (unsigned char)(alpha * 255.0f) for alpha = |winding| clamped to 1
Coverage(winding) == F32TruncInt(F32Mul(ClampHigh(F32Abs(winding), F32One), F32Byte))

\* winding at the start of a row, given its value at the end of the row above:
\* carried over, in place of float winding = 0
RowStart_Carry(above) == above

RowStart(above) == F32Zero

\* one pass of the column loop of the sweep (lines 401-405), winding being
\* its value after winding += accum[y * w + x]; the result is the bitmap so far
\* and winding
SweepCell(winding, bitmap) ==
    [bitmap |-> Append(bitmap, Coverage(winding)), winding |-> winding]

\* the column loop of the sweep (lines 400-405) over accum cells k + 1 .. last of
\* a row, in order: the first half of them and then the rest; row is the bitmap so
\* far and winding
RECURSIVE SweepRow(_, _, _, _)
SweepRow(accum, k, last, row) ==
    IF k >= last \/ Len(row.bitmap) < 0 THEN row
    ELSE IF k + 1 = last THEN SweepCell(F32Add(row.winding, accum[k + 1]), row.bitmap)
    ELSE SweepRow(accum, (k + last) \div 2, last,
                  SweepRow(accum, k, (k + last) \div 2, row))

\* row y of the sweep (lines 398-406), above being the bitmap and winding at the
\* end of the row above
SweepNext(accum, w, y, above) ==
    SweepRow(accum, y * w, y * w + w,
             [bitmap |-> above.bitmap, winding |-> RowStart(above.winding)])

\* the row loop of the sweep over the rows y .. last - 1, in order: the first half
\* of them and then the rest
RECURSIVE SweepFrom(_, _, _, _, _)
SweepFrom(accum, w, y, last, above) ==
    IF y >= last \/ Len(above.bitmap) < 0 THEN above
    ELSE IF y + 1 = last THEN SweepNext(accum, w, y, above)
    ELSE SweepFrom(accum, w, (y + last) \div 2, last,
                   SweepFrom(accum, w, y, (y + last) \div 2, above))

\* accum after the contour loop and the bitmap after the sweep
Swept(accum, w, h, contours) ==
    [rasterized |-> Rasterized(contours), accum |-> accum,
     bitmap |-> SweepFrom(accum, w, 0, h, [bitmap |-> <<>>, winding |-> F32Zero]).bitmap]

\* glyph_ttf__rasterize_shape on a zeroed bitmap; when calloc fails the bitmap
\* stays as it was
glyph_ttf__rasterize_shape(w, h, contours, callocOk) ==
    IF callocOk
    THEN Swept(ContoursFrom([k \in 1..(w * h) |-> F32Zero], w, h, contours, 1), w, h,
               contours)
    ELSE [rasterized |-> {}, accum |-> <<>>, bitmap |-> Zeros(w * h)]

(***************************************************************************)
(* The distance field (glyph_ttf_get_glyph_sdf_bitmap).                    *)
(***************************************************************************)
\* mask[i] = bitmap[i] >= 127 in place of bitmap[i] > 127
Inside_AtLeast(alpha) == IF alpha >= 127 THEN 1 ELSE 0

\* mask[i] of line 691
Inside(alpha) == IF alpha > 127 THEN 1 ELSE 0

\* 1e9f
F32Far == [s |-> 1, m |-> 15625000, e |-> 6]

fminf(a, b) == IF F32Less(b, a) THEN b ELSE a

\* a step of 2.0f in place of 1.0f
SdfStep_Two == F32Two

\* the distance between neighbours, the 1.0f of every pass
SdfStep == F32One

\* the cells the passes of lines 698-720 visit, in the order they visit them, each
\* with the neighbour it is compared with: <<idx, neighbour>>, cell y * w + x being
\* number y * w + x + 1
RowPass(w, y) ==
    [k \in 1..(w - 1) |-> <<y * w + k + 1, y * w + k>>]
        \o [k \in 1..(w - 1) |-> <<y * w + (w - 1 - k) + 1, y * w + (w - k) + 1>>]

\* columns relaxed from the top down only
ColumnPass_Down(w, h, x) == [k \in 1..(h - 1) |-> <<k * w + x + 1, (k - 1) * w + x + 1>>]

ColumnPass(w, h, x) ==
    [k \in 1..(h - 1) |-> <<k * w + x + 1, (k - 1) * w + x + 1>>]
        \o [k \in 1..(h - 1) |-> <<(h - 1 - k) * w + x + 1, (h - k) * w + x + 1>>]

PassOrder(w, h) ==
    Flatten([y \in 1..h |-> RowPass(w, y - 1)]) \o Flatten([x \in 1..w |-> ColumnPass(w, h, x - 1)])

\* dt[idx] = fminf(dt[idx], dt[neighbour] + 1.0f) over the cells of order from
\* its i-th on
RECURSIVE Relax(_, _, _)
Relax(dt, order, i) ==
    IF i > Len(order) \/ Len(dt) = 0 THEN dt
    ELSE Relax([dt EXCEPT ![order[i][1]] = fminf(@, F32Add(dt[order[i][2]], SdfStep))],
               order, i + 1)

\* dt1 (of = 1) and dt0 (of = 0): 0.0f on the cells whose mask is of, 1e9f on the
\* others, after the passes
DistanceTo(mask, w, h, of) ==
    Relax([i \in 1..(w * h) |-> IF mask[i] = of THEN F32Zero ELSE F32Far], PassOrder(w, h), 1)

\* lines 750-755: the clamped distance as a byte
SdfByte(dist, spread) ==
    F32TruncInt(F32Mul(F32Mul(F32Add(F32Div(ClampHigh(ClampLow(dist, F32FromInt(-spread)),
                                                      F32FromInt(spread)),
                                            F32FromInt(spread)),
                                     F32One),
                              F32Half),
                       F32Byte))

SdfOf(mask, dt1, dt0, spread) ==
    [i \in 1..Len(mask) |->
        SdfByte(IF mask[i] = 1 THEN F32Neg(dt0[i]) ELSE dt1[i], spread)]

SdfOfMask(mask, w, h, spread) ==
    SdfOf(mask, DistanceTo(mask, w, h, 1), DistanceTo(mask, w, h, 0), spread)

\* glyph_ttf_get_glyph_sdf_bitmap(bitmap, w, h, spread), for w, h, spread >= 1
glyph_ttf_get_glyph_sdf_bitmap(bitmap, w, h, spread) ==
    SdfOfMask([i \in 1..(w * h) |-> Inside(bitmap[i])], w, h, spread)

\* no call of glyph_ttf_get_glyph_sdf_bitmap yet
NoSdf == [at |-> "", w |-> 0, h |-> 0, spread |-> 0, bitmap |-> <<>>, dt1 |-> <<>>,
          dt0 |-> <<>>, sdf |-> <<>>]

\* what one call of glyph_ttf_get_glyph_bitmap leaves when it returns NULL
NoRaster == [w |-> 0, h |-> 0, contours |-> <<>>, rasterized |-> {}, accum |-> <<>>,
             bitmap |-> <<>>, fail |-> <<"none", 0>>, unwritten |-> FALSE]

\* the allocations of one call that may fail: none, one of the buffers allocated
\* before the contours, the points of contour c, the accumulator
AllocFailures == {<<"none", 0>>, <<"buffers", 0>>, <<"contour", 1>>, <<"contour", 2>>,
                  <<"accum", 0>>}

\* the values a heap cell that was never written may hold
Garbage == {0, 77}

\* every byte the outline decoder reads of the glyph at g lies inside the buffer
OutlineReadable(data, g) ==
    LET numberOfContours == glyph_ttf__get16(data, g)
    IN  /\ Readable(data, g + 10, numberOfContours * 2 + 2)
        /\ GlyphPoints(data, g, numberOfContours).data_index <= Len(data)

\* lines 503-566 of glyph_ttf_get_glyph_bitmap: the contours handed to the
\* rasterizer, those it accumulates edges for, what it makes of them, and the
\* allocation that failed
Raster(w, h, contours, shape, fail, unwritten) ==
    [w |-> w, h |-> h, contours |-> contours, rasterized |-> shape.rasterized,
     accum |-> shape.accum, bitmap |-> shape.bitmap, fail |-> fail, unwritten |-> unwritten]

RasterOf(w, h, contours, fail, unwritten) ==
    Raster(w, h, contours, glyph_ttf__rasterize_shape(w, h, contours, fail # <<"accum", 0>>),
           fail, unwritten)

Outline(data, g, numberOfContours, box, scale_x, scale_y, fail, garbage, pts) ==
    RasterOf(CeilScaled(box[3] - box[1], scale_x) + 1,
             CeilScaled(box[4] - box[2], scale_y) + 1,
             [c \in 1..numberOfContours |->
                 Contour(data, g, pts, garbage, box, scale_x, scale_y, c - 1,
                         fail # <<"contour", c>>)],
             fail,
             \E c \in 1..numberOfContours :
                 ReadsUnwritten(data, g, pts, c - 1, fail # <<"contour", c>>))

\* the glyph header at g: numberOfContours, and <<xMin, yMin, xMax, yMax>>
GlyphBoxAt(data, g) ==
    <<glyph_ttf__get16(data, g + 2), glyph_ttf__get16(data, g + 4),
      glyph_ttf__get16(data, g + 6), glyph_ttf__get16(data, g + 8)>>

\* glyph_ttf_get_glyph_bitmap for a call that returns a bitmap at g: the buffers
\* it fills, and whether a cell no loop wrote was read
RenderedGlyph(data, g, scale_x, scale_y, fail, garbage) ==
    Outline(data, g, glyph_ttf__get16(data, g), GlyphBoxAt(data, g), scale_x, scale_y, fail,
            garbage, GlyphPoints(data, g, glyph_ttf__get16(data, g)))

(***************************************************************************)
(* The font files the model loads.                                         *)
(***************************************************************************)
AllTags == {TagCmap, TagLoca, TagHead, TagGlyf, TagHhea, TagHmtx, TagKern, TagGPOS}

AcceptedSignatures == {SigTtcf, SigTtf, SigOtto, SigTrue}

\* a simple glyph of one contour with the bounding box <<xMin, yMin, xMax, yMax>>:
\* three points, the triangle (10,-20) (110,-20) (10,80)
GlyphBox(box) ==
    U16(1) \o U16(box[1]) \o U16(box[2]) \o U16(box[3]) \o U16(box[4]) \o U16(2) \o U16(0)
        \o <<23, 51, 39>> \o <<10, 100, 100>> \o <<20, 100>>

TriangleBox == <<10, -20, 110, 80>>

GlyphTriangle == GlyphBox(TriangleBox)

\* a composite glyph: numberOfContours = -1 and one component record
GlyphComposite ==
    U16(-1) \o U16(0) \o U16(0) \o U16(50) \o U16(50) \o U16(0) \o U16(0) \o <<0, 0>>

GlyfBytes == GlyphTriangle \o GlyphComposite

\* the byte offsets in GlyfBytes at which a glyph starts or ends
GlyphBounds == {0, Len(GlyphTriangle), Len(GlyfBytes)}

Sub(format, first, glyphs, segs, gia, groups) ==
    [format |-> format, first |-> first, glyphs |-> glyphs, segs |-> segs, gia |-> gia,
     groups |-> groups]

Sub6(first, glyphs) == Sub(6, first, glyphs, <<>>, <<>>, <<>>)

BaseDesc ==
    [sig |-> SigTtf, body |-> "full", tags |-> AllTags, kernFar |-> FALSE, locFormat |-> 0,
     loca |-> <<0, Len(GlyphTriangle), Len(GlyphTriangle), Len(GlyfBytes)>>,
     glyf |-> GlyfBytes, box |-> TriangleBox, upem |-> 1000,
     recs |-> <<[platform |-> 3, encoding |-> 1]>>,
     subs |-> <<Sub6(65, <<1, 2>>)>>]

\* signatures: the accepted forms and every change of one byte of one of them
SigAlphabet == {0, 1, 79, 84, 99, 101, 102, 114, 116, 117, 255}

Signatures ==
    AcceptedSignatures
        \cup {[s EXCEPT ![p] = b] : s \in AcceptedSignatures, p \in 1..4, b \in SigAlphabet}

\* a file that is its signature alone is read past its end once the signature is accepted
SigFonts ==
    {[BaseDesc EXCEPT !.sig = s] : s \in Signatures}
        \cup {[BaseDesc EXCEPT !.sig = s, !.body = "none"] :
                s \in Signatures \ AcceptedSignatures}

\* table directories: every subset of the eight tables, and a kern offset past the end
TableFonts ==
    {[BaseDesc EXCEPT !.tags = T] : T \in SUBSET AllTags}
        \cup {[BaseDesc EXCEPT !.kernFar = TRUE]}

\* cmap encoding records: every sequence of up to MaxRecs records
MaxRecs == 2

RecKinds ==
    {[platform |-> 0, encoding |-> 3], [platform |-> 1, encoding |-> 0],
     [platform |-> 3, encoding |-> 0], [platform |-> 3, encoding |-> 1],
     [platform |-> 3, encoding |-> 10]}

CmapFonts ==
    {[BaseDesc EXCEPT !.recs = r, !.subs = [i \in 1..Len(r) |-> Sub6(65, <<i>>)]] :
        r \in UNION {[1..n -> RecKinds] : n \in 0..MaxRecs}}

\* cmap subtables of every format
Format0Subs ==
    {Sub(0, 0, [i \in 1..256 |-> (3 * i + k) % 256], <<>>, <<>>, <<>>) : k \in {0, 1}}

Format6Subs ==
    {Sub6(first, glyphs) : first \in {0, 65, 66}, glyphs \in {<<>>, <<7>>, <<7, 0>>, <<1, 2, 3>>}}

Terminator == [start |-> 65535, end |-> 65535, delta |-> 1, gi |-> -1]

Gia == <<0, 5, 7, 0, 9, 65535>>

Segs(ranges) ==
    {[start |-> r[1], end |-> r[2], delta |-> dl, gi |-> gi] :
        r \in ranges, dl \in {0, 1, -70}, gi \in {-1, 0, 2}}

Format4Subs ==
    {Sub(4, 0, <<>>, <<a, Terminator>>, Gia, <<>>) :
        a \in Segs({<<65, 66>>, <<65, 65>>, <<67, 70>>})}
    \cup {Sub(4, 0, <<>>, <<a, b, Terminator>>, Gia, <<>>) :
        a \in Segs({<<65, 65>>}),
        b \in {[start |-> 67, end |-> 70, delta |-> -70, gi |-> gi] : gi \in {-1, 0, 2}}}
    \cup {Sub(4, 0, <<>>, <<Terminator>>, <<>>, <<>>)}

Group(start, end, glyph) == [start |-> start, end |-> end, glyph |-> glyph]

Format12Subs ==
    {Sub(f, 0, <<>>, <<>>, <<>>, g) :
        f \in {12, 13},
        g \in {<<>>, <<Group(65, 66, 10)>>, <<Group(65, 65, 10), Group(67, 70000, 20)>>,
               <<Group(0, 0, 1), Group(66, 70, 30), Group(65536, 70000, 40)>>}}

UnsupportedFormats == {1, 2, 5, 8, 10, 14}

UnsupportedSubs == {Sub(f, 0, <<>>, <<>>, <<>>, <<>>) : f \in UnsupportedFormats}

FormatFonts ==
    {[BaseDesc EXCEPT !.subs = <<s>>] :
        s \in Format0Subs \cup Format6Subs \cup Format4Subs \cup Format12Subs
                \cup UnsupportedSubs}

\* loca tables: a first entry 0 and every choice of the others among the glyph
\* bounds, in both formats
LocaFonts ==
    {[BaseDesc EXCEPT !.locFormat = lf, !.loca = <<0>> \o l] :
        lf \in {0, 1}, l \in [1..3 -> GlyphBounds]}

\* bounding boxes of glyph 0, the last with xMax < xMin, and values of unitsPerEm
Boxes == {<<0, 0, 1000, 1000>>, <<0, 0, 375, 125>>, <<-50, -200, 700, 800>>, <<100, 0, 0, 100>>}

BoxFonts ==
    {[BaseDesc EXCEPT !.glyf = GlyphBox(b) \o GlyphComposite, !.box = b, !.upem = u] :
        b \in Boxes, u \in {1000, 2048}}

\* a simple glyph: its bounding box, the last point of each contour, and the bytes
\* of its flag, x and y tables; padded to an even length
SimpleGlyph(box, endPts, flags, xs, ys) ==
    LET b == U16(Len(endPts)) \o U16(box[1]) \o U16(box[2]) \o U16(box[3]) \o U16(box[4])
                 \o Flatten([i \in 1..Len(endPts) |-> U16(endPts[i])]) \o U16(0)
                 \o flags \o xs \o ys
    IN  IF Len(b) % 2 = 0 THEN b ELSE b \o <<0>>

EmBox == <<0, 0, 1000, 1000>>

\* the square (0,0) (1000,0) (1000,1000) (0,1000), all points on the curve
SquareFlags == <<49, 33, 17, 33>>

SquareXs == U16(1000) \o U16(-1000)

SquareYs == U16(1000)

GlyphSquare == SimpleGlyph(EmBox, <<3>>, SquareFlags, SquareXs, SquareYs)

\* the square with its second corner off the curve
GlyphCurve == SimpleGlyph(EmBox, <<3>>, <<49, 32, 17, 33>>, SquareXs, SquareYs)

\* (0,0), off-curve (500,0) and (1000,500), (1000,1000), (0,1000)
GlyphTwoOff ==
    SimpleGlyph(EmBox, <<4>>, <<49, 32, 0, 17, 33>>, U16(500) \o U16(500) \o U16(-1000),
                U16(500) \o U16(500))

\* the square and a second contour of the one point (500,500), on the curve
GlyphDot ==
    SimpleGlyph(EmBox, <<3, 4>>, SquareFlags \o <<1>>, SquareXs \o U16(500),
                SquareYs \o U16(-500))

\* the same with the one point off the curve
GlyphOffDot ==
    SimpleGlyph(EmBox, <<3, 4>>, SquareFlags \o <<0>>, SquareXs \o U16(500),
                SquareYs \o U16(-500))

\* the square and a second contour that ends where the first does
GlyphNoPoints == SimpleGlyph(EmBox, <<3, 3>>, SquareFlags, SquareXs, SquareYs)

\* end points that go backwards: the first contour ends past the last point
GlyphBackwards == SimpleGlyph(EmBox, <<3, 2>>, <<49, 33, 17>>, U16(1000), U16(1000))

\* a triangle whose flags are written with a repeat count, its deltas single bytes
GlyphRepeat ==
    SimpleGlyph(<<0, 0, 375, 375>>, <<2>>, <<63, 1, 39>>, <<200, 50, 240>>, <<10, 200, 100>>)

\* the square twice, one contour upon the other
GlyphDouble ==
    SimpleGlyph(EmBox, <<3, 7>>, SquareFlags \o <<17, 33, 17, 33>>, SquareXs \o SquareXs,
                SquareYs \o U16(-1000) \o U16(1000))

\* the square with its second corner off the curve, in a bounding box half its width
GlyphWide == SimpleGlyph(<<0, 0, 500, 1000>>, <<3>>, <<49, 32, 17, 33>>, SquareXs, SquareYs)

Outlines ==
    {GlyphSquare, GlyphCurve, GlyphTwoOff, GlyphDot, GlyphOffDot, GlyphNoPoints,
     GlyphBackwards, GlyphRepeat, GlyphDouble, GlyphWide}

\* the font whose glyph 0 is the outline o
OutlineFont(o) ==
    [BaseDesc EXCEPT !.glyf = o \o GlyphComposite,
                     !.loca = <<0, Len(o), Len(o), Len(o) + Len(GlyphComposite)>>,
                     !.box = <<glyph_ttf__get16(o, 2), glyph_ttf__get16(o, 4),
                               glyph_ttf__get16(o, 6), glyph_ttf__get16(o, 8)>>]

OutlineFonts == {OutlineFont(o) : o \in Outlines}

\* the fonts whose glyphs are rasterized
GlyphFonts == BoxFonts \cup OutlineFonts

Fonts == SigFonts \cup TableFonts \cup CmapFonts \cup FormatFonts \cup LocaFonts

\* the arguments the caller passes
Codepoints == {-3, 0, 64, 65, 66, 67, 70, 71, 255, 256, 65535, 65536, 70000, 70001}

GlyphIndices == 0..2

\* the float n / d
Scale(n, d) == F32Div(F32FromInt(n), F32FromInt(d))

\* <<scale_x, scale_y>>
Scales == {<<Scale(1, 8), Scale(1, 4)>>}

\* the pixel heights the caller asks a scale for
PixelHeights == {4, 8, 16}

\* the caller passes the scale it was given as scale_y, and that scale times one of
\* these as scale_x
Stretches == {1, 2}

(***************************************************************************)
(* The image codec of include/glyph/glyph_image.h: the BMP writer.         *)
(***************************************************************************)
\* the four bytes of an int written least significant byte first
\* ((v >> 8k) & 0xFF for k = 0..3), for v >= 0
IntBytesLE(v) == <<v % 256, (v \div 256) % 256, (v \div 65536) % 256, (v \div 16777216) % 256>>

\* int row_size = ((width * 3 + 3) / 4) * 4
BmpRowSize(width) == ((width * 3 + 3) \div 4) * 4

\* the padding without its outer % 4: 4 bytes where none are needed
BmpPadding_NoWrap(width) == 4 - ((width * 3) % 4)

\* int padding = (4 - (width * 3 % 4)) % 4
BmpPadding(width) == (4 - ((width * 3) % 4)) % 4

\* unsigned char fileheader[14]
BmpFileHeader(file_size) == <<66, 77>> \o IntBytesLE(file_size) \o <<0, 0, 0, 0>> \o <<54, 0, 0, 0>>

\* unsigned char infoheader[40]
BmpInfoHeader(width, height, data_size) ==
    <<40, 0, 0, 0>> \o IntBytesLE(width) \o IntBytesLE(height) \o <<1, 0>> \o <<24, 0>>
        \o <<0, 0, 0, 0>> \o IntBytesLE(data_size) \o Zeros(16)

\* the three fputc calls of pixel (x, y): b, g, r
BmpPixel(data, width, x, y) ==
    <<U8(data, (y * width + x) * 3 + 2), U8(data, (y * width + x) * 3 + 1),
      U8(data, (y * width + x) * 3 + 0)>>

\* the bytes the body of the y loop emits for row y
BmpRow(data, width, y) ==
    Flatten([i \in 1..width |-> BmpPixel(data, width, i - 1, y)]) \o Zeros(BmpPadding(width))

\* the row loop with its rows in image order (y = 0 first)
BmpRowsTopDown(data, width, height) ==
    Flatten([k \in 1..height |-> BmpRow(data, width, k - 1)])

\* for (y = height - 1; y >= 0; y--)
BmpRows(data, width, height) ==
    Flatten([k \in 1..height |-> BmpRow(data, width, height - k)])

\* everything glyph_write_bmp writes between fopen and fclose
BmpBytes(image) ==
    LET row_size == BmpRowSize(image.width)
        data_size == row_size * image.height
        file_size == 54 + data_size
    IN  BmpFileHeader(file_size) \o BmpInfoHeader(image.width, image.height, data_size)
            \o BmpRows(image.pixels, image.width, image.height)

(***************************************************************************)
(* Checksums.  A uint32_t is held as its four bytes, least significant     *)
(* first.                                                                  *)
(***************************************************************************)
\* a ^ b of two values below 2^n
RECURSIVE XorBits(_, _, _)
XorBits(a, b, n) ==
    IF n = 0 THEN 0 ELSE ((a + b) % 2) + 2 * XorBits(a \div 2, b \div 2, n - 1)

Xor32(x, y) ==
    <<XorBits(x[1], y[1], 8), XorBits(x[2], y[2], 8), XorBits(x[3], y[3], 8),
      XorBits(x[4], y[4], 8)>>

\* x >> 1 and x >> 8
Shr1(x) ==
    <<(x[1] \div 2) + 128 * (x[2] % 2), (x[2] \div 2) + 128 * (x[3] % 2),
      (x[3] \div 2) + 128 * (x[4] % 2), x[4] \div 2>>

Shr8(x) == <<x[2], x[3], x[4], 0>>

\* the polynomial not reflected, 0x04C11DB7
Crc32Poly_Unreflected == <<183, 29, 193, 4>>

\* uint32_t poly = 0xEDB88320u
Crc32Poly == <<32, 131, 184, 237>>

AllOnes32 == <<255, 255, 255, 255>>

\* the j loop of crc32_init_table, from iteration j on
RECURSIVE Crc32Bits(_, _)
Crc32Bits(crc, j) ==
    IF j >= 8 \/ Len(crc) = 0 THEN crc
    ELSE Crc32Bits(IF crc[1] % 2 = 1 THEN Xor32(Shr1(crc), Crc32Poly) ELSE Shr1(crc), j + 1)

\* the table crc32_init_table fills in when crc32_table_inited is 0
crc32_init_table == [i \in 0..255 |-> Crc32Bits(<<i, 0, 0, 0>>, 0)]

\* the iterations lo..hi of the i loop of crc32 (the first iteration is 1), with
\* the table as it is; a range of iterations is its first half, then its second,
\* and the register after the first half is computed before the second is begun
RECURSIVE Crc32Loop(_, _, _, _, _)
Crc32Loop(table, data, lo, hi, crc) ==
    IF lo > hi THEN crc
    ELSE IF lo = hi
    THEN LET idx == XorBits(crc[1], data[lo], 8)
         IN  Xor32(Shr8(crc), table[idx])
    ELSE LET mid == (lo + hi) \div 2
             half == Crc32Loop(table, data, lo, mid, crc)
         IN  IF Len(half) = 4 THEN Crc32Loop(table, data, mid + 1, hi, half) ELSE half

crc32(table, data) == Xor32(Crc32Loop(table, data, 1, Len(data), AllOnes32), AllOnes32)

\* const uint32_t MOD_ADLER = 65521u
MOD_ADLER == 65521

\* the iterations lo..hi of the loop of adler32, from the sums ab = <<a, b>>
RECURSIVE Adler32Loop(_, _, _, _)
Adler32Loop(data, lo, hi, ab) ==
    IF lo > hi THEN ab
    ELSE IF lo = hi
    THEN LET a1 == (ab[1] + data[lo]) % MOD_ADLER
         IN  <<a1, (ab[2] + a1) % MOD_ADLER>>
    ELSE LET mid == (lo + hi) \div 2
             half == Adler32Loop(data, lo, mid, ab)
         IN  IF Len(half) = 2 THEN Adler32Loop(data, mid + 1, hi, half) ELSE half

\* (b << 16) | a
adler32(data) ==
    LET ab == Adler32Loop(data, 1, Len(data), <<1, 0>>)
    IN  <<ab[1] % 256, ab[1] \div 256, ab[2] % 256, ab[2] \div 256>>

\* the four bytes write_u32_be writes
write_u32_be(v) == <<v[4], v[3], v[2], v[1]>>

(***************************************************************************)
(* The PNG writer.                                                         *)
(***************************************************************************)
PngSig == <<137, 80, 78, 71, 13, 10, 26, 10>>

TypeIHDR == <<73, 72, 68, 82>>
TypeIDAT == <<73, 68, 65, 84>>
TypeIEND == <<73, 69, 78, 68>>

\* unsigned char ihdr_data[13]
IhdrData(image) == U32(image.width) \o U32(image.height) \o <<8, 2, 0, 0, 0>>

\* the buffer tmp without the chunk type
ChunkTmp_DataOnly(type, data) == data

\* the buffer tmp the checksum of a chunk is computed over
ChunkTmp(type, data) == type \o data

\* size_t raw_row_bytes = (size_t)img->width * 3 + 1
RawRowBytes(image) == image.width * 3 + 1

\* a filtered row in which each byte is less the byte before it
RawRow_Stride1(image, y) ==
    LET row_data == SubSeq(image.pixels, y * image.width * 3 + 1, (y + 1) * image.width * 3)
    IN  <<1>> \o [i \in 1..(image.width * 3) |->
                    IF i - 1 < 3 THEN row_data[i] ELSE (row_data[i] - row_data[i - 1]) % 256]

\* the filtered row y: the filter type 1 (Sub), then each byte less the byte one
\* pixel to its left, modulo 256
RawRow(image, y) ==
    LET row_data == SubSeq(image.pixels, y * image.width * 3 + 1, (y + 1) * image.width * 3)
    IN  <<1>> \o [i \in 1..(image.width * 3) |->
                    IF i - 1 < 3 THEN row_data[i] ELSE (row_data[i] - row_data[i - 3]) % 256]

\* the buffer raw after the filter loop
RawBytes(image) == Flatten([k \in 1..image.height |-> RawRow(image, k - 1)])

StoredBlockMax == 65535

\* the while loop that copies raw into stored blocks, from raw_pos on
RECURSIVE StoredBlocks(_, _, _)
StoredBlocks(raw, raw_pos, remaining) ==
    IF remaining > 0
    THEN LET block_len == IF remaining > StoredBlockMax THEN StoredBlockMax ELSE remaining
             bfinal == IF remaining <= StoredBlockMax THEN 1 ELSE 0
             nlen == 65535 - block_len
         IN  <<bfinal, block_len % 256, block_len \div 256, nlen % 256, nlen \div 256>>
                 \o SubSeq(raw, raw_pos + 1, raw_pos + block_len)
                 \o StoredBlocks(raw, raw_pos + block_len, remaining - block_len)
    ELSE <<>>

\* the buffer comp[0 .. comp_pos) when the IDAT chunk is written
CompBytes(raw) == <<120, 1>> \o StoredBlocks(raw, 0, Len(raw)) \o write_u32_be(adler32(raw))

\* what glyph_write_png has written when it tests raw: signature and IHDR chunk
PngHead(table, image) ==
    PngSig \o write_u32_be(IntBytesLE(13)) \o TypeIHDR \o IhdrData(image)
        \o write_u32_be(crc32(table, ChunkTmp(TypeIHDR, IhdrData(image))))

\* what it writes after that: the IDAT chunk and the IEND chunk
PngTail(table, image) ==
    LET comp == CompBytes(RawBytes(image))
    IN  write_u32_be(IntBytesLE(Len(comp))) \o TypeIDAT \o comp
            \o write_u32_be(crc32(table, ChunkTmp(TypeIDAT, comp)))
            \o write_u32_be(IntBytesLE(0)) \o TypeIEND
            \o write_u32_be(crc32(table, TypeIEND))

(***************************************************************************)
(* The state machine: one caller, one glyph_font_t, one font file.         *)
(***************************************************************************)
NULL == 0

ZeroFont ==
    [data |-> NULL, fontstart |-> 0, numGlyphs |-> 0, loca |-> 0, head |-> 0, glyf |-> 0,
     hhea |-> 0, hmtx |-> 0, kern |-> 0, gpos |-> 0, cmap |-> 0, index_map |-> 0,
     indexToLocFormat |-> 0, scale |-> 0]

Ret(op, at, arg, val) ==
    [op |-> op, at |-> at, arg |-> arg, val |-> val, sx |-> Scale(0, 1),
     sy |-> Scale(0, 1), out |-> Unwritten]

\* the last image call: which, where it returned, its return value, and the
\* number of bytes each iteration of the BMP row loop emitted
Wr(op, at, val, rowLens) == [op |-> op, at |-> at, val |-> val, rowLens |-> rowLens]

\* static storage is zero-initialised
ZeroTable == [i \in 0..255 |-> <<0, 0, 0, 0>>]

\* nothing in progress: no zlib stream, no thread, no glyph decoded, no window
NoZlib == [at |-> "none"]

NoThreads == <<>>

NoDecoded == [at |-> "none"]

NoWatch == [at |-> "none"]

UnitIdle ==
    /\ zlib = NoZlib
    /\ threads = NoThreads
    /\ decoded = NoDecoded
    /\ watch = NoWatch

\* the image codec before any image exists
ImageIdle ==
    /\ img = [width |-> 0, height |-> 0, data |-> NULL, pixels |-> <<>>]
    /\ file = <<>>
    /\ wr = Wr("none", "", 0, <<>>)
    /\ openFiles = 0
    /\ crc32_table = ZeroTable
    /\ crc32_table_inited = 0

\* the rasterizer before any call
GlyphIdle ==
    /\ raster = NoRaster
    /\ sdf = NoSdf

Init ==
    /\ UnitIdle
    /\ \E d \in Fonts : fontFile = [desc |-> d, bytes |-> FileBytes(d)]
    /\ heap = <<>>
    /\ font = ZeroFont
    /\ fontBefore = ZeroFont
    /\ loaded = FALSE
    /\ initStage = "none"
    /\ ret = Ret("none", "", 0, 0)
    /\ ub = FALSE
    /\ ImageIdle
    /\ GlyphIdle

\* the buffer the handle points at
Data == heap[font.data].bytes

\* glyph_ttf_load_font_from_file(&font, file): fopen or malloc may fail; otherwise
\* the file is read into a new buffer, glyph_ttf_init runs on it, and the buffer is
\* freed when init returns 0
LoadFont ==
    /\ UNCHANGED unitVars
    /\ ~ub
    /\ UNCHANGED <<imageVars, glyphVars>>
    /\ Len(heap) < MaxLoads
    /\ \E fopenOk \in BOOLEAN, mallocOk \in BOOLEAN :
         IF ~fopenOk \/ ~mallocOk
         THEN /\ ret' = Ret("load", IF fopenOk THEN "malloc" ELSE "fopen", 0, 0)
              /\ UNCHANGED <<fontFile, heap, font, fontBefore, loaded, initStage, ub>>
         ELSE LET bytes == fontFile.bytes
                  ptr == Len(heap) + 1
                  r == glyph_ttf_init(font, ptr, bytes, 0)
              IN  /\ heap' = Append(heap, [bytes |-> bytes,
                                           frees |-> IF r.result = 0 THEN 1 ELSE 0])
                  /\ fontBefore' = font
                  /\ font' = r.font
                  /\ initStage' = r.stage
                  /\ loaded' = (r.result = 1)
                  /\ ret' = Ret("load", "init", 0, r.result)
                  /\ UNCHANGED <<fontFile, ub>>

\* glyph_ttf_free_font(&font); freeing a buffer that is already free is undefined
FreeFont ==
    /\ UNCHANGED unitVars
    /\ ~ub
    /\ UNCHANGED <<imageVars, glyphVars>>
    /\ IF font.data # NULL
       THEN /\ heap' = [heap EXCEPT ![font.data].frees = @ + 1]
            /\ ub' = (heap[font.data].frees >= 1)
       ELSE UNCHANGED <<heap, ub>>
    /\ font' = [font EXCEPT !.data = NULL]
    /\ loaded' = FALSE
    /\ ret' = Ret("free", "", 0, 0)
    /\ UNCHANGED <<fontFile, fontBefore, initStage>>

FindGlyphIndex ==
    /\ UNCHANGED unitVars
    /\ ~ub /\ loaded
    /\ UNCHANGED <<imageVars, glyphVars>>
    /\ \E codepoint \in Codepoints :
         ret' = Ret("find", "", codepoint, glyph_ttf_find_glyph_index(font, Data, codepoint))
    /\ UNCHANGED <<fontFile, heap, font, fontBefore, loaded, initStage, ub>>

\* a read outside the buffer is undefined
GetGlyphOffset ==
    /\ UNCHANGED unitVars
    /\ ~ub /\ loaded
    /\ UNCHANGED <<imageVars, glyphVars>>
    /\ \E glyph_index \in GlyphIndices :
         IF OffsetReadable(font, Data, glyph_index)
         THEN /\ ret' = Ret("offset", "", glyph_index,
                            glyph_ttf__get_glyph_offset(font, Data, glyph_index))
              /\ ub' = ub
         ELSE /\ ret' = Ret("offset", "ub", glyph_index, 0)
              /\ ub' = TRUE
    /\ UNCHANGED <<fontFile, heap, font, fontBefore, loaded, initStage>>

\* a read outside the buffer is undefined
ScaleForPixelHeight ==
    /\ UNCHANGED unitVars
    /\ ~ub /\ loaded
    /\ UNCHANGED <<imageVars, sdf>>
    /\ raster' = NoRaster
    /\ \E pixels \in PixelHeights :
         IF Readable(Data, font.head + UnitsPerEmOff, 2)
         THEN /\ ret' = [Ret("scale", "", pixels, 0) EXCEPT
                          !.sx = glyph_ttf_scale_for_pixel_height(font, Data,
                                                                  F32FromInt(pixels))]
              /\ ub' = ub
         ELSE /\ ret' = Ret("scale", "ub", pixels, 0)
              /\ ub' = TRUE
    /\ UNCHANGED <<fontFile, heap, font, fontBefore, loaded, initStage>>

GetGlyphBitmap ==
    /\ UNCHANGED unitVars
    /\ ~ub /\ loaded
    /\ UNCHANGED <<imageVars, glyphVars>>
    /\ \E glyph_index \in GlyphIndices, scale \in Scales, allocOk \in BOOLEAN :
         IF HeaderReadable(font, Data, glyph_index)
         THEN LET o == glyph_ttf_get_glyph_bitmap(font, Data, glyph_index,
                                                  scale[1], scale[2], allocOk)
              IN  /\ ret' = [Ret("bitmap", "", glyph_index, o.bitmap) EXCEPT
                               !.sx = scale[1], !.sy = scale[2], !.out = o]
                  /\ ub' = ub
         ELSE /\ ret' = Ret("bitmap", "ub", glyph_index, 0)
              /\ ub' = TRUE
    /\ UNCHANGED <<fontFile, heap, font, fontBefore, loaded, initStage>>

Next ==
    \/ LoadFont
    \/ FreeFont
    \/ FindGlyphIndex
    \/ GetGlyphOffset
    \/ GetGlyphBitmap

Spec == Init /\ [][Next]_vars

(***************************************************************************)
(* The state machine of the rasterizer: one caller holding a loaded font,  *)
(* who asks for a scale and then for the bitmap of a glyph at that scale.  *)
(***************************************************************************)
\* the state after glyph_ttf_load_font_from_file returned 1
InitGlyph ==
    /\ UnitIdle
    /\ \E d \in GlyphFonts :
         LET bytes == FileBytes(d)
             r == glyph_ttf_init(ZeroFont, 1, bytes, 0)
         IN  /\ fontFile = [desc |-> d, bytes |-> bytes]
             /\ heap = <<[bytes |-> bytes, frees |-> 0]>>
             /\ font = r.font
             /\ initStage = r.stage
             /\ loaded = (r.result = 1)
    /\ fontBefore = ZeroFont
    /\ ret = Ret("load", "init", 0, 1)
    /\ ub = FALSE
    /\ ImageIdle
    /\ GlyphIdle

\* glyph_ttf_get_glyph_bitmap(&font, glyph_index, scale_x, scale_y, &width, &height,
\* &xoff, &yoff) with the buffers it fills.  A read outside the font buffer is
\* undefined; so is a read of a cell of x_coords, y_coords or point_flags past
\* their n_points cells, which yields what the heap holds there
RenderGlyph ==
    /\ UNCHANGED unitVars
    /\ ~ub /\ loaded
    /\ ret.op = "scale" /\ ret.at = ""
    /\ UNCHANGED <<imageVars, sdf>>
    /\ \E glyph_index \in GlyphIndices, stretch \in Stretches, fail \in AllocFailures :
         LET scale_x == F32Mul(ret.sx, F32FromInt(stretch))
             scale_y == ret.sx
             call == [Ret("bitmap", "", glyph_index, 0) EXCEPT !.sx = scale_x, !.sy = scale_y]
         IN  IF ~HeaderReadable(font, Data, glyph_index)
             THEN /\ ret' = [call EXCEPT !.at = "ub"]
                  /\ raster' = NoRaster
                  /\ ub' = TRUE
             ELSE LET o == glyph_ttf_get_glyph_bitmap(font, Data, glyph_index, scale_x,
                                                      scale_y, fail # <<"buffers", 0>>)
                      g == glyph_ttf__get_glyph_offset(font, Data, glyph_index)
                  IN  IF o.bitmap = 0
                      THEN /\ ret' = [call EXCEPT !.out = o]
                           /\ raster' = NoRaster
                           /\ ub' = ub
                      ELSE IF ~OutlineReadable(Data, g)
                      THEN /\ ret' = [call EXCEPT !.at = "ub"]
                           /\ raster' = NoRaster
                           /\ ub' = TRUE
                      ELSE \E garbage \in Garbage :
                             /\ ret' = [call EXCEPT !.val = 1, !.out = o]
                             /\ raster' = RenderedGlyph(Data, g, scale_x, scale_y, fail,
                                                        garbage)
                             /\ ub' = raster'.unwritten
    /\ UNCHANGED <<fontFile, heap, font, fontBefore, loaded, initStage>>

NextGlyph ==
    \/ ScaleForPixelHeight
    \/ RenderGlyph

SpecGlyph == InitGlyph /\ [][NextGlyph]_vars

(***************************************************************************)
(* The state machine of the image codec: one caller, one glyph_image_t,    *)
(* one output file.                                                        *)
(***************************************************************************)
\* the largest image the model writes
MaxWidth == 5

MaxHeight == 3

PixelSeeds == {0, 200}

\* width * height * 3 bytes, no two neighbours alike
Pixels(width, height, seed) ==
    [i \in 1..(width * height * 3) |-> (seed + 7 * i * i + 3 * i) % 256]

\* the images the caller may hold: filled ones, and ones whose buffer
\* glyph_image_create failed to allocate
Images ==
    {[width |-> w, height |-> h, data |-> 1, pixels |-> Pixels(w, h, seed)] :
        w \in 0..MaxWidth, h \in 0..MaxHeight, seed \in PixelSeeds}
    \cup {[width |-> w, height |-> h, data |-> NULL, pixels |-> <<>>] :
            w \in {0, MaxWidth}, h \in {0, MaxHeight}}

\* the font loader before any font is loaded
FontIdle ==
    /\ fontFile = [desc |-> BaseDesc, bytes |-> <<>>]
    /\ heap = <<>>
    /\ font = ZeroFont
    /\ fontBefore = ZeroFont
    /\ loaded = FALSE
    /\ initStage = "none"
    /\ ret = Ret("none", "", 0, 0)
    /\ ub = FALSE

InitImage ==
    /\ UnitIdle
    /\ FontIdle
    /\ GlyphIdle
    /\ img \in Images
    /\ file = <<>>
    /\ wr = Wr("none", "", 0, <<>>)
    /\ openFiles = 0
    /\ crc32_table = ZeroTable
    /\ crc32_table_inited = 0

\* glyph_write_bmp(filename, &img)
WriteBmp ==
    /\ UNCHANGED unitVars
    /\ wr.at # "ub"
    /\ UNCHANGED <<fontVars, glyphVars, img, openFiles, crc32_table, crc32_table_inited>>
    /\ IF img.data = NULL
       THEN wr' = Wr("bmp", "args", -1, <<>>) /\ file' = file
       ELSE \E fopenOk \in BOOLEAN :
              IF ~fopenOk
              THEN wr' = Wr("bmp", "fopen", -1, <<>>) /\ file' = file
              ELSE /\ file' = BmpBytes(img)
                   /\ wr' = Wr("bmp", "end", 0,
                               [k \in 1..img.height |->
                                   Len(BmpRow(img.pixels, img.width, img.height - k))])

\* the places at which glyph_write_png can fail: its fopen and its five mallocs
PngFailures == {"none", "fopen", "tmp_ihdr", "raw", "row_data", "comp", "tmp_idat"}

\* glyph_write_png(filename, &img).  raw and comp are tested after malloc; tmp and
\* row_data are not, and writing through a null pointer is undefined: the process
\* may stop there with its file handle open and any part of its output on disk
WritePng ==
    /\ UNCHANGED unitVars
    /\ wr.at # "ub"
    /\ UNCHANGED <<fontVars, glyphVars, img>>
    /\ IF img.data = NULL
       THEN /\ wr' = Wr("png", "args", -1, <<>>)
            /\ UNCHANGED <<file, openFiles, crc32_table, crc32_table_inited>>
       ELSE \E fail \in PngFailures :
              IF fail = "fopen"
              THEN /\ wr' = Wr("png", "fopen", -1, <<>>)
                   /\ UNCHANGED <<file, openFiles, crc32_table, crc32_table_inited>>
              ELSE IF fail = "tmp_ihdr"
              THEN /\ wr' = Wr("png", "ub", 0, <<>>)
                   /\ file' \in {<<>>, PngSig \o write_u32_be(IntBytesLE(13)) \o TypeIHDR
                                            \o IhdrData(img)}
                   /\ openFiles' = openFiles + 1
                   /\ UNCHANGED <<crc32_table, crc32_table_inited>>
              ELSE LET table == IF crc32_table_inited # 0 THEN crc32_table
                                ELSE crc32_init_table
                       head == PngHead(table, img)
                       comp == CompBytes(RawBytes(img))
                   IN  /\ crc32_table' = table
                       /\ crc32_table_inited' = 1
                       /\ IF fail \in {"raw", "comp"}
                          THEN /\ wr' = Wr("png", fail, -1, <<>>)
                               /\ file' = head
                               /\ openFiles' = openFiles
                          ELSE IF fail = "row_data" /\ img.width > 0 /\ img.height > 0
                          THEN /\ wr' = Wr("png", "ub", 0, <<>>)
                               /\ file' \in {<<>>, head}
                               /\ openFiles' = openFiles + 1
                          ELSE IF fail = "tmp_idat"
                          THEN /\ wr' = Wr("png", "ub", 0, <<>>)
                               /\ file' \in {<<>>, head,
                                              head \o write_u32_be(IntBytesLE(Len(comp)))
                                                   \o TypeIDAT \o comp}
                               /\ openFiles' = openFiles + 1
                          ELSE /\ wr' = Wr("png", "end", 0, <<>>)
                               /\ file' = head \o PngTail(table, img)
                               /\ openFiles' = openFiles

NextImage ==
    \/ WriteBmp
    \/ WritePng

SpecImage == InitImage /\ [][NextImage]_vars

(***************************************************************************)
(* The state machine of the distance field: one caller holding a coverage  *)
(* bitmap.                                                                 *)
(***************************************************************************)
\* the sizes <<w, h>> of the bitmaps, and the two levels of their cells: below
\* and above the threshold
SdfSizes == {<<w, h>> : w \in 1..3, h \in 1..3} \cup {<<5, 1>>}

SdfLevels == {<<0, 255>>, <<127, 128>>}

SdfBitmaps ==
    UNION {{[w |-> s[1], h |-> s[2], bitmap |-> [i \in 1..(s[1] * s[2]) |-> l[b[i]]]] :
               b \in [1..(s[1] * s[2]) -> {1, 2}], l \in SdfLevels} : s \in SdfSizes}

Spreads == {1, 2, 3, 8}

\* the caller holds a bitmap
InitSdf ==
    /\ UnitIdle
    /\ FontIdle
    /\ ImageIdle
    /\ raster = NoRaster
    /\ \E b \in SdfBitmaps : sdf = [NoSdf EXCEPT !.w = b.w, !.h = b.h, !.bitmap = b.bitmap]

\* sdf = glyph_ttf_get_glyph_sdf_bitmap(bitmap, w, h, spread).  None of its four
\* allocations is tested, and writing through a null pointer is undefined
GetGlyphSdfBitmap ==
    /\ UNCHANGED unitVars
    /\ sdf.at # "ub"
    /\ UNCHANGED <<fontVars, imageVars, raster>>
    /\ \E spread \in Spreads, mallocOk \in BOOLEAN :
         sdf' = IF mallocOk
                THEN [sdf EXCEPT
                        !.at = "",
                        !.spread = spread,
                        !.dt1 = DistanceTo([i \in 1..(sdf.w * sdf.h) |-> Inside(sdf.bitmap[i])],
                                           sdf.w, sdf.h, 1),
                        !.dt0 = DistanceTo([i \in 1..(sdf.w * sdf.h) |-> Inside(sdf.bitmap[i])],
                                           sdf.w, sdf.h, 0),
                        !.sdf = glyph_ttf_get_glyph_sdf_bitmap(sdf.bitmap, sdf.w, sdf.h, spread)]
                ELSE [sdf EXCEPT !.at = "ub", !.spread = spread, !.dt1 = <<>>, !.dt0 = <<>>,
                                 !.sdf = <<>>]

NextSdf == GetGlyphSdfBitmap

SpecSdf == InitSdf /\ [][NextSdf]_vars

(***************************************************************************)
(* The zlib stream of glyph_write_png, step by step (lines 367-434): the   *)
(* filter loop, the allocation of comp, each iteration of the block loop,  *)
(* the Adler32 trailer.                                                    *)
(***************************************************************************)
\* sizes <<width, height>> whose filtered stream fills one block exactly (65535
\* bytes), spills into a second, fills two exactly, spills into a third
BigSizes == {<<28, 771>>, <<28, 772>>, <<28, 1542>>, <<28, 1543>>}

\* width * height * 3 bytes of such an image
BigPixels(width, height) ==
    [i \in 1..(width * height * 3) |-> ((i % 251) * ((i % 7) + 1) + (i \div 251)) % 256]

ZlibImages ==
    {i \in Images : i.data # NULL}
        \cup {[width |-> s[1], height |-> s[2], data |-> 1, pixels |-> BigPixels(s[1], s[2])] :
                 s \in BigSizes}

\* size_t max_blocks = (raw_size + 65534) / 65535
MaxBlocks(raw_size) == (raw_size + (StoredBlockMax - 1)) \div StoredBlockMax

\* a capacity without the 4 bytes of the checksum
CompCap_NoTrailer(raw_size) == 2 + raw_size + MaxBlocks(raw_size) * 5

\* size_t comp_cap = 2 + raw_size + max_blocks * 5 + 4
CompCap(raw_size) == 2 + raw_size + MaxBlocks(raw_size) * 5 + 4

\* uint16_t block_len of one iteration of the block loop
BlockLen(remaining) == IF remaining > StoredBlockMax THEN StoredBlockMax ELSE remaining

\* a block header whose final bit is always set
BlockHeader_AlwaysFinal(remaining) ==
    <<1, BlockLen(remaining) % 256, BlockLen(remaining) \div 256,
      (65535 - BlockLen(remaining)) % 256, (65535 - BlockLen(remaining)) \div 256>>

\* the five bytes one iteration writes before the data: block_hdr, block_len and
\* nlen = (uint16_t)(~block_len), low byte first
BlockHeader(remaining) ==
    <<IF remaining <= StoredBlockMax THEN 1 ELSE 0,
      BlockLen(remaining) % 256, BlockLen(remaining) \div 256,
      (65535 - BlockLen(remaining)) % 256, (65535 - BlockLen(remaining)) \div 256>>

\* glyph_write_png has written the IHDR chunk of image
ZlibStart(image) ==
    [at |-> "filter", image |-> image, raw |-> <<>>, raw_size |-> 0, comp |-> <<>>,
     comp_cap |-> 0, comp_pos |-> 0, raw_pos |-> 0, remaining |-> 0]

InitZlib ==
    /\ FontIdle
    /\ ImageIdle
    /\ GlyphIdle
    /\ threads = NoThreads
    /\ decoded = NoDecoded
    /\ watch = NoWatch
    /\ \E image \in ZlibImages : zlib = ZlibStart(image)

\* lines 367-390: raw is allocated and tested, row_data is allocated and not
\* tested (copying a row to a null pointer is undefined), every row is filtered
FilterRows ==
    /\ zlib.at = "filter"
    /\ UNCHANGED <<fontVars, imageVars, glyphVars, threads, decoded, watch>>
    /\ \E rawOk \in BOOLEAN, rowDataOk \in BOOLEAN :
         zlib' = IF ~rawOk THEN [zlib EXCEPT !.at = "fail"]
                 ELSE IF ~rowDataOk /\ zlib.image.width > 0 /\ zlib.image.height > 0
                 THEN [zlib EXCEPT !.at = "ub"]
                 ELSE [zlib EXCEPT !.at = "alloc",
                                   !.raw = RawBytes(zlib.image),
                                   !.raw_size = RawRowBytes(zlib.image) * zlib.image.height]

\* lines 393-409: comp is allocated and tested, the zlib header is written
AllocComp ==
    /\ zlib.at = "alloc"
    /\ UNCHANGED <<fontVars, imageVars, glyphVars, threads, decoded, watch>>
    /\ \E compOk \in BOOLEAN :
         zlib' = IF ~compOk THEN [zlib EXCEPT !.at = "fail"]
                 ELSE [zlib EXCEPT !.at = "blocks",
                                   !.comp_cap = CompCap(zlib.raw_size),
                                   !.comp = <<120, 1>>,
                                   !.comp_pos = 2,
                                   !.remaining = zlib.raw_size,
                                   !.raw_pos = 0]

\* lines 410-427: one iteration of while (remaining > 0)
StoredBlock ==
    /\ zlib.at = "blocks"
    /\ zlib.remaining > 0
    /\ UNCHANGED <<fontVars, imageVars, glyphVars, threads, decoded, watch>>
    /\ zlib' = [zlib EXCEPT
                  !.comp = @ \o BlockHeader(zlib.remaining)
                             \o SubSeq(zlib.raw, zlib.raw_pos + 1,
                                       zlib.raw_pos + BlockLen(zlib.remaining)),
                  !.comp_pos = @ + 5 + BlockLen(zlib.remaining),
                  !.raw_pos = @ + BlockLen(zlib.remaining),
                  !.remaining = @ - BlockLen(zlib.remaining)]

\* lines 429-434: the loop is left and the Adler32 of raw is appended
AppendAdler32 ==
    /\ zlib.at = "blocks"
    /\ zlib.remaining = 0
    /\ UNCHANGED <<fontVars, imageVars, glyphVars, threads, decoded, watch>>
    /\ zlib' = [zlib EXCEPT !.at = "done",
                            !.comp = @ \o write_u32_be(adler32(zlib.raw)),
                            !.comp_pos = @ + 4]

NextZlib ==
    \/ FilterRows
    \/ AllocComp
    \/ StoredBlock
    \/ AppendAdler32

SpecZlib == InitZlib /\ [][NextZlib]_vars

(***************************************************************************)
(* crc32 and crc32_init_table, step by step (lines 122-168): each thread   *)
(* is at one access to the shared crc32_table_inited or crc32_table.       *)
(***************************************************************************)
\* the number of calls of crc32 a thread makes
MaxCalls == 2

\* the byte sequences the calls of one thread checksum: the chunk type IEND, one
\* byte that looks up the last entry of the table, no byte, the IHDR chunk of an
\* image
CrcInputsSeq ==
    {TypeIEND, <<0>>, <<>>, <<255, 1, 128, 64, 32>>,
     ChunkTmp(TypeIHDR, IhdrData([width |-> 300, height |-> 2]))}

\* those of the calls of two threads, thread by thread
CrcInputs == <<{TypeIEND}, {<<0>>}>>

\* a test of the flag that never finds it set
Inited_Never(flag) == FALSE

\* if (crc32_table_inited) return
Inited(flag) == flag # 0

\* a loop that stops one entry short
FillDone_Short(i) == i >= 255

\* the loop condition i < 256 is false
FillDone(i) == i >= 256

\* what no step of crc32 touches
notCrcVars == <<fontVars, glyphVars, img, file, wr, openFiles, zlib, decoded, watch>>

\* a thread outside crc32
NoCall == [pc |-> "idle", inputs |-> {}, data |-> <<>>, i |-> 0, k |-> 0, crc |-> AllOnes32,
           result |-> <<0, 0, 0, 0>>, calls |-> 0]

InitThreads(inputs) ==
    /\ FontIdle
    /\ ImageIdle
    /\ GlyphIdle
    /\ zlib = NoZlib
    /\ decoded = NoDecoded
    /\ watch = NoWatch
    /\ threads = [t \in 1..Len(inputs) |-> [NoCall EXCEPT !.inputs = inputs[t]]]

\* one thread: its calls follow one another
InitCrcSeq == InitThreads(<<CrcInputsSeq>>)

\* two threads
InitCrc == InitThreads(CrcInputs)

\* thread t enters crc32(data, len), which enters crc32_init_table
Call(t) ==
    /\ UNCHANGED notCrcVars
    /\ threads[t].pc = "idle"
    /\ threads[t].calls < MaxCalls
    /\ \E data \in threads[t].inputs :
         threads' = [threads EXCEPT ![t] = [@ EXCEPT !.pc = "test", !.data = data]]
    /\ UNCHANGED <<crc32_table, crc32_table_inited>>

\* line 133: the flag is read; set, crc32_init_table returns and crc32 begins
\* its loop from 0xFFFFFFFF
TestInited(t) ==
    /\ UNCHANGED notCrcVars
    /\ threads[t].pc = "test"
    /\ threads' = [threads EXCEPT ![t] =
                     IF Inited(crc32_table_inited)
                     THEN [@ EXCEPT !.pc = "loop", !.k = 0, !.crc = AllOnes32]
                     ELSE [@ EXCEPT !.pc = "fill", !.i = 0]]
    /\ UNCHANGED <<crc32_table, crc32_table_inited>>

\* lines 135-143: crc32_table[i] = crc, or the loop is left
FillEntry(t) ==
    /\ UNCHANGED notCrcVars
    /\ threads[t].pc = "fill"
    /\ IF FillDone(threads[t].i)
       THEN /\ threads' = [threads EXCEPT ![t].pc = "set"]
            /\ UNCHANGED crc32_table
       ELSE /\ crc32_table' = [crc32_table EXCEPT
                                 ![threads[t].i] = Crc32Bits(<<threads[t].i, 0, 0, 0>>, 0)]
            /\ threads' = [threads EXCEPT ![t].i = @ + 1]
    /\ UNCHANGED crc32_table_inited

\* line 144: crc32_table_inited = 1
SetInited(t) ==
    /\ UNCHANGED notCrcVars
    /\ threads[t].pc = "set"
    /\ crc32_table_inited' = 1
    /\ threads' = [threads EXCEPT ![t] = [@ EXCEPT !.pc = "loop", !.k = 0, !.crc = AllOnes32]]
    /\ UNCHANGED crc32_table

\* lines 163-166: one iteration of the loop of crc32, which reads one entry
LoopByte(t) ==
    /\ UNCHANGED notCrcVars
    /\ threads[t].pc = "loop"
    /\ threads[t].k < Len(threads[t].data)
    /\ threads' = [threads EXCEPT ![t] =
                     [@ EXCEPT !.k = @ + 1,
                               !.crc = Xor32(Shr8(threads[t].crc),
                                             crc32_table[XorBits(threads[t].crc[1],
                                                                 threads[t].data[threads[t].k + 1],
                                                                 8)])]]
    /\ UNCHANGED <<crc32_table, crc32_table_inited>>

\* line 167: return crc ^ 0xFFFFFFFFu
ReturnCrc(t) ==
    /\ UNCHANGED notCrcVars
    /\ threads[t].pc = "loop"
    /\ threads[t].k = Len(threads[t].data)
    /\ threads' = [threads EXCEPT ![t] =
                     [@ EXCEPT !.pc = "idle", !.result = Xor32(threads[t].crc, AllOnes32),
                               !.calls = @ + 1]]
    /\ UNCHANGED <<crc32_table, crc32_table_inited>>

NextCrc ==
    \/ \E t \in 1..Len(threads) : Call(t)
    \/ \E t \in 1..Len(threads) : TestInited(t)
    \/ \E t \in 1..Len(threads) : FillEntry(t)
    \/ \E t \in 1..Len(threads) : SetInited(t)
    \/ \E t \in 1..Len(threads) : LoopByte(t)
    \/ \E t \in 1..Len(threads) : ReturnCrc(t)

SpecCrcSeq == InitCrcSeq /\ [][NextCrc]_vars

SpecCrc == InitCrc /\ [][NextCrc]_vars

(***************************************************************************)
(* The flag loop of glyph_ttf_get_glyph_bitmap, iteration by iteration     *)
(* (lines 462-473), on the flag bytes of a glyph.                          *)
(***************************************************************************)
\* the largest number of points of a glyph and of entries of its flag table
MaxPoints == 5

MaxEntries == 2

\* an entry of a flag table: a flag byte, or a flag byte with the repeat bit and
\* its count
FlagEntries ==
    {<<flag>> : flag \in {1, 0, 55}}
        \cup {<<flag, count>> : flag \in {9, 8, 63}, count \in {0, 1, 3, 255}}

\* the flag tables: up to MaxEntries entries, then the bytes that follow them in
\* the glyph
FlagTables ==
    {Flatten(t) \o [k \in 1..MaxPoints |-> 1] :
        t \in UNION {[1..n -> FlagEntries] : n \in 0..MaxEntries}}

\* a loop whose inner loop does not test flag_index
RepeatRoom_Unbounded(n_points, flag_index) == 255

\* the copies the inner loop can add after the flag at flag_index - 1 was written:
\* r < repeat_count && flag_index < n_points
RepeatRoom(n_points, flag_index) == n_points - flag_index

\* one iteration of while (flag_index < n_points)
FlagStep(data, data_index, point_flags, n_points) ==
    IF FlagBit(Rd8(data, data_index), 8)
    THEN [point_flags |->
             point_flags \o
                 [k \in 1..(1 + (IF Rd8(data, data_index + 1)
                                       < RepeatRoom(n_points, Len(point_flags) + 1)
                                 THEN Rd8(data, data_index + 1)
                                 ELSE RepeatRoom(n_points, Len(point_flags) + 1)))
                     |-> Rd8(data, data_index)],
          data_index |-> data_index + 2]
    ELSE [point_flags |-> Append(point_flags, Rd8(data, data_index)),
          data_index |-> data_index + 1]

\* point_flags has been allocated with n_points cells: flag_index = 0, data_index
\* = flags_start
InitFlags ==
    /\ FontIdle
    /\ ImageIdle
    /\ GlyphIdle
    /\ zlib = NoZlib
    /\ threads = NoThreads
    /\ watch = NoWatch
    /\ \E data \in FlagTables, n_points \in 1..MaxPoints :
         decoded = [at |-> "loop", data |-> data, n_points |-> n_points,
                    point_flags |-> <<>>, data_index |-> 0]

\* one iteration
ReadFlag ==
    /\ decoded.at = "loop"
    /\ Len(decoded.point_flags) < decoded.n_points
    /\ UNCHANGED <<fontVars, imageVars, glyphVars, zlib, threads, watch>>
    /\ decoded' =
         [decoded EXCEPT
            !.point_flags = FlagStep(decoded.data, decoded.data_index,
                                     decoded.point_flags, decoded.n_points).point_flags,
            !.data_index = FlagStep(decoded.data, decoded.data_index,
                                    decoded.point_flags, decoded.n_points).data_index]

\* the loop condition is false
FlagsRead ==
    /\ decoded.at = "loop"
    /\ Len(decoded.point_flags) >= decoded.n_points
    /\ UNCHANGED <<fontVars, imageVars, glyphVars, zlib, threads, watch>>
    /\ decoded' = [decoded EXCEPT !.at = "done"]

NextFlags ==
    \/ ReadFlag
    \/ FlagsRead

SpecFlags == InitFlags /\ [][NextFlags]_vars

(***************************************************************************)
(* The stopwatch: the main loop of main (part_000, lines 129-180), one     *)
(* iteration per step.  Times are in ticks of high_resolution_clock.       *)
(***************************************************************************)
\* the loop is followed for this many frames, and a frame handles at most this
\* many presses of the Space key
MaxFrames == 3

MaxPresses == 2

\* by how much two readings of high_resolution_clock::now() that follow one
\* another differ.  The clock need not be steady (is_steady is left to the
\* implementation, and libstdc++ makes it system_clock): a reading can lie before
\* the one before it
ClockSteps == {-1, 0, 2}

\* the clock moves on by d; ran adds up the time passed with the stopwatch running
\* and back tells whether a reading lay before the one before it
Tick(w, d) ==
    [w EXCEPT !.now = @ + d,
              !.ran = IF w.order_time_stop THEN @ ELSE @ + d,
              !.back = @ \/ d < 0]

\* lines 136-151: a press of the Space key
Press(w) ==
    IF w.order_time_stop
    THEN [w EXCEPT !.order_time_stop = FALSE,
                   !.start_time = w.now,
                   !.saved_time = w.output_time]
    ELSE [w EXCEPT !.order_time_stop = TRUE, !.saved_time = w.output_time]

\* lines 134-152: the events of a frame, each press after a step of the clock
RECURSIVE Events(_, _, _)
Events(w, ds, k) ==
    IF k > Len(ds) \/ w.at # "loop" THEN w ELSE Events(Press(Tick(w, ds[k])), ds, k + 1)

\* lines 158-178: what is drawn, output_time being the time shown
Draw(w) ==
    IF w.order_time_stop
    THEN [w EXCEPT !.saved_time = w.output_time]
    ELSE [w EXCEPT !.output_time = (w.now - w.start_time) + w.saved_time]

\* lines 101-128: order_time_stop = true, saved_time = output_time = 0, start_time
\* the epoch, the window open
InitWatch ==
    /\ FontIdle
    /\ ImageIdle
    /\ GlyphIdle
    /\ zlib = NoZlib
    /\ threads = NoThreads
    /\ decoded = NoDecoded
    /\ \E now \in {1, 2} :
         watch = [at |-> "loop", now |-> now, order_time_stop |-> TRUE, start_time |-> 0,
                  saved_time |-> 0, output_time |-> 0, presses |-> 0, ran |-> 0, frames |-> 0,
                  back |-> FALSE]

\* one iteration of while (RGFW_window_shouldClose(...) == false)
Frame ==
    /\ watch.at = "loop"
    /\ watch.frames < MaxFrames
    /\ UNCHANGED <<fontVars, imageVars, glyphVars, zlib, threads, decoded>>
    /\ \E n \in 0..MaxPresses :
         \E ds \in [1..n -> ClockSteps], d \in ClockSteps :
            watch' = Draw(Tick(Events([watch EXCEPT !.presses = n, !.frames = @ + 1], ds, 1), d))

\* the window is closed: lines 181-182
CloseWindow ==
    /\ watch.at = "loop"
    /\ UNCHANGED <<fontVars, imageVars, glyphVars, zlib, threads, decoded>>
    /\ watch' = [watch EXCEPT !.at = "closed"]

NextWatch ==
    \/ Frame
    \/ CloseWindow

SpecWatch == InitWatch /\ [][NextWatch]_vars

(***************************************************************************)
(* What the claims speak of, read off the description of the font on disk. *)
(***************************************************************************)
Desc == fontFile.desc

\* the last call was a load that reached glyph_ttf_init
InitReturned == ret.op = "load" /\ ret.at = "init"

\* the directory lists the four required tables, and loca if it lists glyf
RequiredListed(d) ==
    /\ {TagCmap, TagHead, TagHhea, TagHmtx} \subseteq d.tags
    /\ (TagGlyf \in d.tags => TagLoca \in d.tags)

\* an encoding record of platform 0, or of platform 3 with encoding 1 or 10
UnicodeRecord(r) == r.platform = 0 \/ (r.platform = 3 /\ r.encoding \in {1, 10})

HasUnicodeRecord(d) == \E i \in 1..Len(d.recs) : UnicodeRecord(d.recs[i])

\* the first Unicode record in directory order
FirstUnicode(d) ==
    CHOOSE i \in 1..Len(d.recs) :
        UnicodeRecord(d.recs[i]) /\ \A j \in 1..(i - 1) : ~UnicodeRecord(d.recs[j])

SelectedSub(d) == d.subs[FirstUnicode(d)]

\* the segmented mapping of a format-4 subtable
InSegment(g, cp) == g.start <= cp /\ cp <= g.end

RefFormat4(s, cp) ==
    IF \E i \in 1..Len(s.segs) : InSegment(s.segs[i], cp)
    THEN LET g == s.segs[CHOOSE i \in 1..Len(s.segs) : InSegment(s.segs[i], cp)]
         IN  IF g.gi < 0 THEN (cp + g.delta) % 65536
             ELSE LET e == s.gia[g.gi + (cp - g.start) + 1]
                  IN  IF e = 0 THEN 0 ELSE (e + g.delta) % 65536
    ELSE 0

\* the subtable maps the codepoint
Covers(s, cp) ==
    CASE s.format = 0 -> 0 <= cp /\ cp <= 255
      [] s.format = 6 -> s.first <= cp /\ cp < s.first + Len(s.glyphs)
      [] s.format = 4 -> \E i \in 1..Len(s.segs) : InSegment(s.segs[i], cp)
      [] s.format \in {12, 13} ->
            \E i \in 1..Len(s.groups) : s.groups[i].start <= cp /\ cp <= s.groups[i].end
      [] OTHER -> FALSE

\* the last call asked for a glyph the font has, the directory lists loca, and
\* the call stayed inside the buffer
GlyphCall(op) ==
    /\ ret.op = op /\ ret.at = ""
    /\ TagLoca \in Desc.tags
    /\ ret.arg + 2 <= Len(Desc.loca)

\* the two adjacent loca entries of the glyph last asked for, as byte offsets
Entry0 == Desc.loca[ret.arg + 1]

Entry1 == Desc.loca[ret.arg + 2]

(***************************************************************************)
(* C1                                                                      *)
(***************************************************************************)
\* C1: over any sequence of glyph_ttf_load_font_from_file and glyph_ttf_free_font
\* calls on one handle, every font buffer allocated is released exactly once: never
\* twice, and none is left unreleased after glyph_ttf_free_font has returned.
C1_ReleasedExactlyOnce ==
    /\ \A i \in 1..Len(heap) : heap[i].frees <= 1
    /\ ret.op = "free" => \A i \in 1..Len(heap) : heap[i].frees = 1

(***************************************************************************)
(* C2                                                                      *)
(***************************************************************************)
\* C2: when glyph_ttf_init fails, every field of the caller's glyph_font_t has the
\* value it had before the call.
C2_FailedInitLeavesHandle == (InitReturned /\ ret.val = 0) => font = fontBefore

(***************************************************************************)
(* C3                                                                      *)
(***************************************************************************)
\* C3: glyph_ttf_init fails, at its signature test, for every 4-byte signature other
\* than 'ttcf', 00 01 00 00, 'OTTO' and 'true', whatever follows the signature, and
\* never returns at the signature test for one of those four.
C3_SignatureTest ==
    InitReturned =>
        /\ Desc.sig \notin AcceptedSignatures => (ret.val = 0 /\ initStage = "signature")
        /\ Desc.sig \in AcceptedSignatures => initStage # "signature"

\* a full font file whose signature differs from 'true' in one byte was rejected
C3_Witness ==
    /\ InitReturned /\ ret.val = 0 /\ initStage = "signature"
    /\ Desc.body = "full" /\ Desc.sig = <<116, 114, 117, 102>>

(***************************************************************************)
(* C4                                                                      *)
(***************************************************************************)
\* C4: whenever glyph_ttf_init has returned success, the handle's cmap, head, hhea
\* and hmtx offsets are non-zero, and loca is non-zero if glyf is; and init fails
\* whenever the directory lacks one of cmap, head, hhea, hmtx, or lists glyf
\* without loca.
C4_RequiredTables ==
    /\ loaded =>
         /\ font.cmap # 0 /\ font.head # 0 /\ font.hhea # 0 /\ font.hmtx # 0
         /\ font.glyf # 0 => font.loca # 0
    /\ (InitReturned /\ ~RequiredListed(Desc)) => ret.val = 0

\* init was refused for a font that lacks nothing but hmtx
C4_Witness ==
    /\ InitReturned /\ ret.val = 0 /\ initStage = "required"
    /\ Desc.tags = AllTags \ {TagHmtx}

(***************************************************************************)
(* C5                                                                      *)
(***************************************************************************)
\* C5: after a successful glyph_ttf_init every table offset of the handle and
\* index_map is 0 or an offset inside the font buffer.
C5_OffsetsInsideBuffer ==
    loaded =>
        \A o \in {font.cmap, font.loca, font.head, font.glyf, font.hhea, font.hmtx,
                  font.kern, font.gpos, font.index_map} :
            o = 0 \/ (0 <= o /\ o < Len(Data))

(***************************************************************************)
(* C6                                                                      *)
(***************************************************************************)
\* the last call ran glyph_ttf_init on a font with an accepted signature and all
\* required tables but no Unicode cmap record
NoUnicodeCmapLoad ==
    /\ InitReturned
    /\ Desc.sig \in AcceptedSignatures /\ RequiredListed(Desc) /\ ~HasUnicodeRecord(Desc)

C7_FirstUnicodeRecordWins ==
    loaded =>
        /\ HasUnicodeRecord(Desc)
        /\ font.index_map = font.cmap + SubOffset(Desc, FirstUnicode(Desc))

\* two Unicode records of different kinds: the first one is the one selected
C7_Witness ==
    /\ loaded
    /\ Len(Desc.recs) = 2
    /\ UnicodeRecord(Desc.recs[1]) /\ UnicodeRecord(Desc.recs[2])
    /\ Desc.recs[1] # Desc.recs[2]
    /\ font.index_map = font.cmap + SubOffset(Desc, 1)
    /\ font.index_map # font.cmap + SubOffset(Desc, 2)

(***************************************************************************)
(* C8                                                                      *)
(***************************************************************************)
\* C8: for a format-4 subtable and every codepoint, glyph_ttf_find_glyph_index
\* equals the segmented mapping: in the segment containing the codepoint,
\* (codepoint + idDelta) mod 65536 when rangeOffset is 0, otherwise the glyph index
\* array entry of the codepoint, 0 when that entry is 0 and (entry + idDelta) mod
\* 65536 otherwise; 0 when no segment contains the codepoint.
C8_Format4Mapping ==
    (ret.op = "find" /\ SelectedSub(Desc).format = 4) =>
        ret.val = RefFormat4(SelectedSub(Desc), ret.arg)

\* a codepoint of an indirect segment with a non-zero delta whose glyph index
\* array entry is 0 was looked up
C8_Witness ==
    /\ ret.op = "find" /\ SelectedSub(Desc).format = 4 /\ ret.val = 0
    /\ \E i \in 1..Len(SelectedSub(Desc).segs) :
         LET g == SelectedSub(Desc).segs[i]
         IN  /\ InSegment(g, ret.arg) /\ g.gi >= 0 /\ g.delta # 0
             /\ SelectedSub(Desc).gia[g.gi + (ret.arg - g.start) + 1] = 0

(***************************************************************************)
(* C9                                                                      *)
(***************************************************************************)
\* C9: glyph_ttf_find_glyph_index returns 0 for every codepoint the selected
\* subtable does not cover: format 0 and a codepoint outside 0..255, format 6 and
\* a codepoint outside [first, first+count), format 4 and no containing segment,
\* format 12/13 and no containing group, and every other format.
C9_UncoveredIsZero ==
    (ret.op = "find" /\ ~Covers(SelectedSub(Desc), ret.arg)) => ret.val = 0

(***************************************************************************)
(* C10                                                                     *)
(***************************************************************************)
\* C10: for a glyph whose two adjacent loca entries are equal,
\* glyph_ttf__get_glyph_offset returns the empty-glyph sentinel and
\* glyph_ttf_get_glyph_bitmap returns no bitmap with width, height, xoff and yoff
\* all 0; when the entries differ the offset returned is glyf + the first entry.
C10_EmptyGlyph ==
    /\ GlyphCall("offset") =>
         ret.val = (IF Entry0 = Entry1 THEN -1 ELSE font.glyf + Entry0)
    /\ (GlyphCall("bitmap") /\ Entry0 = Entry1) =>
         /\ ret.val = 0 /\ ret.out.written
         /\ ret.out.width = 0 /\ ret.out.height = 0
         /\ ret.out.xoff = 0 /\ ret.out.yoff = 0

\* the bitmap of a glyph with equal, non-zero 4-byte loca entries was asked for
C10_Witness ==
    /\ GlyphCall("bitmap") /\ Entry0 = Entry1 /\ Entry0 # 0
    /\ Desc.locFormat = 1 /\ font.indexToLocFormat = 1
    /\ ret.out = NoBitmap

(***************************************************************************)
(* C11                                                                     *)
(***************************************************************************)
\* the bitmap of the composite glyph (numberOfContours = -1) was asked for
CompositeCall ==
    /\ GlyphCall("bitmap") /\ TagGlyf \in Desc.tags
    /\ Entry0 = Len(GlyphTriangle) /\ Entry1 # Entry0
    /\ glyph_ttf__get16(Data, font.glyf + Entry0) < 0

\* C11: asking glyph_ttf_get_glyph_bitmap for a composite glyph (numberOfContours
\* < 0) gives an outcome of its own, unlike the one an empty glyph gives (no
\* bitmap, width, height, xoff and yoff all 0).
C11_CompositeIsDistinct == CompositeCall => ret.out # NoBitmap

(***************************************************************************)
(* What the claims about the image codec speak of.                         *)
(***************************************************************************)
\* the last call wrote a whole BMP file, or a whole PNG file
BmpWritten == wr.op = "bmp" /\ wr.at = "end" /\ wr.val = 0

PngWritten == wr.op = "png" /\ wr.at = "end" /\ wr.val = 0

\* the 32-bit field at offset off of a file, little-endian and big-endian
FieldLE(f, off) == f[off + 1] + 256 * f[off + 2] + 65536 * f[off + 3] + 16777216 * f[off + 4]

FieldBE(f, off) == 16777216 * f[off + 1] + 65536 * f[off + 2] + 256 * f[off + 3] + f[off + 4]

\* ((W*3+3)/4)*4 with integer division
PaddedRow(W) == ((W * 3 + 3) \div 4) * 4

(***************************************************************************)
(* C18                                                                     *)
(***************************************************************************)
\* C18: for every image width W, each pixel row glyph_write_bmp emits (3*W pixel
\* bytes plus padding) is ((W*3+3)/4)*4 bytes long, a multiple of 4, and the data
\* size in the header is that row size times the height.
C18_RowBytes ==
    BmpWritten =>
        /\ Len(wr.rowLens) = img.height
        /\ \A k \in 1..Len(wr.rowLens) :
              wr.rowLens[k] = PaddedRow(img.width) /\ wr.rowLens[k] % 4 = 0
        /\ FieldLE(file, 34) = PaddedRow(img.width) * img.height

\* rows of a width whose pixel bytes are a multiple of 4, and of one whose are not
C18_Witness ==
    /\ BmpWritten /\ img.height = 2
    /\ \/ img.width = 4 /\ wr.rowLens = <<12, 12>>
       \/ img.width = 3 /\ wr.rowLens = <<12, 12>>

(***************************************************************************)
(* C19                                                                     *)
(***************************************************************************)
\* C19: the file glyph_write_bmp writes is a 14-byte file header ('BM', the file
\* size, data offset 54), a 40-byte info header (24 bits per pixel, compression 0),
\* then the rows, the k-th row in the file being image row height-1-k with each
\* pixel as its B, G, R bytes; the file is as long as its header says, 54 + row
\* size * height.
C19_BmpLayout ==
    BmpWritten =>
        LET W == img.width
            H == img.height
        IN  /\ SubSeq(file, 1, 2) = <<66, 77>>
            /\ FieldLE(file, 2) = 54 + PaddedRow(W) * H
            /\ Len(file) = FieldLE(file, 2)
            /\ FieldLE(file, 10) = 54
            /\ FieldLE(file, 14) = 40
            /\ FieldLE(file, 18) = W /\ FieldLE(file, 22) = H
            /\ file[14 + 14 + 1] = 24 /\ file[14 + 15 + 1] = 0
            /\ FieldLE(file, 14 + 16) = 0
            /\ \A k \in 0..(H - 1) : \A x \in 0..(W - 1) :
                  LET at == 54 + k * PaddedRow(W) + 3 * x
                      px == ((H - 1 - k) * W + x) * 3
                  IN  /\ file[at + 1] = img.pixels[px + 3]
                      /\ file[at + 2] = img.pixels[px + 2]
                      /\ file[at + 3] = img.pixels[px + 1]

\* an image of several rows and columns was written, its last row first
C19_Witness ==
    /\ BmpWritten /\ img.width = 3 /\ img.height = 3
    /\ SubSeq(file, 55, 57) = <<img.pixels[21], img.pixels[20], img.pixels[19]>>
    /\ SubSeq(file, 55, 57) # <<img.pixels[3], img.pixels[2], img.pixels[1]>>

(***************************************************************************)
(* C20                                                                     *)
(***************************************************************************)
\* CRC-32 computed bit by bit: reflected polynomial 0xEDB88320, initial value and
\* final XOR 0xFFFFFFFF
RECURSIVE RefCrcShift(_, _)
RefCrcShift(crc, n) ==
    IF n = 0 \/ Len(crc) = 0 THEN crc
    ELSE RefCrcShift(IF crc[1] % 2 = 1 THEN Xor32(Shr1(crc), <<32, 131, 184, 237>>)
                     ELSE Shr1(crc), n - 1)

\* the register after the bytes lo..hi of data
RECURSIVE RefCrcFrom(_, _, _, _)
RefCrcFrom(data, lo, hi, crc) ==
    IF lo > hi THEN crc
    ELSE IF lo = hi THEN RefCrcShift(Xor32(crc, <<data[lo], 0, 0, 0>>), 8)
    ELSE LET mid == (lo + hi) \div 2
             half == RefCrcFrom(data, lo, mid, crc)
         IN  IF Len(half) = 4 THEN RefCrcFrom(data, mid + 1, hi, half) ELSE half

RefCrc32(data) ==
    Xor32(RefCrcFrom(data, 1, Len(data), <<255, 255, 255, 255>>), <<255, 255, 255, 255>>)

\* the chunk that starts at offset off of a file: length, type, data, CRC, and
\* the offset of what follows it
ChunkAt(f, off) ==
    LET len == FieldBE(f, off)
    IN  [len |-> len, type |-> SubSeq(f, off + 5, off + 8),
         data |-> SubSeq(f, off + 9, off + 8 + len),
         crc |-> SubSeq(f, off + 9 + len, off + 12 + len), next |-> off + 12 + len]

\* the chunk lies inside the file and ends with the CRC-32 of its type and data,
\* most significant byte first
ChunkSound(f, c) ==
    /\ c.next <= Len(f)
    /\ c.crc = write_u32_be(RefCrc32(c.type \o c.data))

\* C20: every file glyph_write_png completes is the 8-byte signature, an IHDR
\* chunk of 13 data bytes (width, height big-endian, bit depth 8, colour type 2,
\* interlace 0), one IDAT chunk and a zero-length IEND chunk, in this order and
\* nothing else, each chunk being its big-endian length, its type, its data and the
\* CRC-32 of type and data.
C20_PngChunks ==
    PngWritten =>
        LET ihdr == ChunkAt(file, 8)
            idat == ChunkAt(file, ihdr.next)
            iend == ChunkAt(file, idat.next)
        IN  /\ SubSeq(file, 1, 8) = <<137, 80, 78, 71, 13, 10, 26, 10>>
            /\ ihdr.type = <<73, 72, 68, 82>> /\ ihdr.len = 13 /\ ChunkSound(file, ihdr)
            /\ FieldBE(ihdr.data, 0) = img.width /\ FieldBE(ihdr.data, 4) = img.height
            /\ ihdr.data[9] = 8 /\ ihdr.data[10] = 2 /\ ihdr.data[13] = 0
            /\ idat.type = <<73, 68, 65, 84>> /\ ChunkSound(file, idat)
            /\ iend.type = <<73, 69, 78, 68>> /\ iend.len = 0 /\ ChunkSound(file, iend)
            /\ iend.next = Len(file)

\* a PNG of several rows and columns was completed
C20_Witness ==
    /\ PngWritten /\ img.width = 3 /\ img.height = 2
    /\ Len(file) = 8 + 25 + (12 + 2 + 5 + 20 + 4) + 12

(***************************************************************************)
(* Scale and bitmap size.                                                  *)
(***************************************************************************)
\* a call of glyph_ttf_scale_for_pixel_height that returned
ScaleCall == ret.op = "scale" /\ ret.at = ""

\* a call of glyph_ttf_get_glyph_bitmap on glyph 0, a simple glyph, that returned
\* with its out-parameters written, the box of the glyph being in order
SimpleGlyphCall ==
    /\ ret.op = "bitmap" /\ ret.at = "" /\ ret.arg = 0
    /\ ret.out.written
    /\ Desc.box[1] <= Desc.box[3] /\ Desc.box[2] <= Desc.box[4]

\* the float 0.016f = 16.0f / 1000
Scale16Of1000 == [s |-> 1, m |-> 8589935, e |-> -29]

\* C12: glyph_ttf_scale_for_pixel_height returns the float quotient pixels /
\* unitsPerEm (0.016f for 16 and 1000), and glyph_ttf_get_glyph_bitmap on a simple
\* glyph reports width = ceil((xMax - xMin) * scale_x) + 1 and height =
\* ceil((yMax - yMin) * scale_y) + 1, the products being float products; the box
\* 0..1000 at scale 0.016f gives 17 x 17
C12_ScaleAndSize ==
    /\ ScaleCall =>
          /\ ret.sx = F32Div(F32FromInt(ret.arg), F32FromInt(Desc.upem))
          /\ (ret.arg = 16 /\ Desc.upem = 1000) => ret.sx = Scale16Of1000
    /\ SimpleGlyphCall =>
          /\ ret.out.width
                = F32CeilInt(F32Mul(F32FromInt(Desc.box[3] - Desc.box[1]), ret.sx)) + 1
          /\ ret.out.height
                = F32CeilInt(F32Mul(F32FromInt(Desc.box[4] - Desc.box[2]), ret.sy)) + 1
          /\ (Desc.box = EmBox /\ ret.sx = Scale16Of1000 /\ ret.sy = Scale16Of1000)
                => ret.out.width = 17 /\ ret.out.height = 17

\* the box 0..1000 of a font of 1000 units per em, at the scale of 16 pixels
C12_Witness ==
    /\ SimpleGlyphCall
    /\ Desc.box = EmBox /\ Desc.upem = 1000
    /\ ret.sx = Scale16Of1000 /\ ret.sy = Scale16Of1000
    /\ ret.out.width = 17 /\ ret.out.height = 17

(***************************************************************************)
(* Contours.                                                               *)
(***************************************************************************)
\* a call of glyph_ttf_get_glyph_bitmap that returned a bitmap
BitmapReturned == ret.op = "bitmap" /\ ret.at = "" /\ ret.val = 1

\* C13 as stated: every contour handed to glyph_ttf__rasterize_shape has at least
\* 2 points
C13_EveryContourTwoPoints ==
    BitmapReturned => \A c \in 1..Len(raster.contours) : Len(raster.contours[c]) >= 2

\* C13: every contour glyph_ttf__rasterize_shape accumulates edges for has at
\* least 2 points; a contour handed over with fewer (one on-curve source point, no
\* point, or a failed allocation) is passed over, and every other one is taken
\* when the accumulator was allocated
C13_RasterizedContoursTwoPoints ==
    BitmapReturned =>
        /\ \A c \in raster.rasterized :
              c \in 1..Len(raster.contours) /\ Len(raster.contours[c]) >= 2
        /\ \A c \in 1..Len(raster.contours) :
              (Len(raster.contours[c]) >= 2 /\ raster.accum # <<>>)
                  => c \in raster.rasterized

\* a contour of one point was handed over and passed over, beside one of four
C13_Witness ==
    /\ BitmapReturned
    /\ \E c \in 1..Len(raster.contours) :
          Len(raster.contours[c]) = 1 /\ c \notin raster.rasterized
    /\ \E c \in raster.rasterized : Len(raster.contours[c]) = 4

(***************************************************************************)
(* The sweep.                                                              *)
(***************************************************************************)
\* the sum of the accumulator cells of row y from column 0 up to and including
\* column x, taken from the left, starting from 0
RECURSIVE RunningSum(_, _, _, _)
RunningSum(accum, w, y, x) ==
    IF x < 0 THEN F32Zero
    ELSE F32Add(RunningSum(accum, w, y, x - 1), accum[y * w + x + 1])

\* min(1, |S|)
Alpha(S) == IF F32Less(F32One, F32Abs(S)) THEN F32One ELSE F32Abs(S)

\* floor(255 * alpha) for 0 <= alpha <= 1, of the exact product: alpha is
\* m * 2^e with m = hi * 4096 + lo
ExactFloor255(alpha) ==
    IF alpha.m = 0 \/ -alpha.e - 12 > 30 THEN 0
    ELSE ((255 * (alpha.m \div 4096)) + ((255 * (alpha.m % 4096)) \div 4096))
            \div Pow2(-alpha.e - 12)

\* a call that returned a bitmap whose accumulator was allocated
Rasterization == BitmapReturned /\ raster.accum # <<>>

\* C14: after rasterization every cell of the bitmap is in 0..255 and equals
\* floor(255 * min(1, |S|)), S being the running sum of the accumulator cells of
\* its row from the left up to and including its column, from 0 on every row
C14_SweepCoverage ==
    Rasterization =>
        /\ Len(raster.bitmap) = raster.w * raster.h
        /\ \A y \in 0..(raster.h - 1), x \in 0..(raster.w - 1) :
              /\ raster.bitmap[y * raster.w + x + 1] \in 0..255
              /\ raster.bitmap[y * raster.w + x + 1]
                    = F32FloorInt(F32Mul(Alpha(RunningSum(raster.accum, raster.w, y, x)),
                                         F32Byte))
              /\ raster.bitmap[y * raster.w + x + 1]
                    = ExactFloor255(Alpha(RunningSum(raster.accum, raster.w, y, x)))

\* a bitmap with a cell of partial coverage, and a row above the last whose
\* running sum is not 0 at its end
C14_Witness ==
    /\ Rasterization
    /\ \E k \in 1..Len(raster.bitmap) : raster.bitmap[k] \in 1..254
    /\ \E y \in 0..(raster.h - 2) :
          RunningSum(raster.accum, raster.w, y, raster.w - 1) # F32Zero

(***************************************************************************)
(* Determinism of the rasterizer.                                          *)
(***************************************************************************)
\* a call that returned a bitmap, every allocation of which succeeded
Rendering == BitmapReturned /\ raster.fail = <<"none", 0>>

\* what the call makes of the font bytes, the glyph index and the scale alone
Rerun ==
    RenderedGlyph(Data, glyph_ttf__get_glyph_offset(font, Data, ret.arg), ret.sx, ret.sy,
                  <<"none", 0>>, 0)

\* C15: the width, height and bitmap of a call are those of every other call on
\* the same glyph of the same font at the same scale, and the call reads no cell
\* of its buffers that it has not written
C15_Deterministic ==
    Rendering =>
        /\ ~raster.unwritten
        /\ raster.w = Rerun.w /\ raster.h = Rerun.h /\ raster.bitmap = Rerun.bitmap

(***************************************************************************)
(* The distance field.                                                     *)
(***************************************************************************)
\* a call of glyph_ttf_get_glyph_sdf_bitmap that returned
SdfReturned == sdf.at = "" /\ sdf.sdf # <<>>

SdfCells == 1..(sdf.w * sdf.h)

\* the cells whose coverage is greater than 127
InsideCells == {i \in SdfCells : sdf.bitmap[i] > 127}

Abs(n) == IF n < 0 THEN -n ELSE n

\* the number of steps between cells i and j, each step to a 4-neighbour
Steps(i, j) ==
    Abs(((i - 1) % sdf.w) - ((j - 1) % sdf.w)) + Abs(((i - 1) \div sdf.w) - ((j - 1) \div sdf.w))

\* the clamped signed distance of cell i: minus the steps to the nearest outside
\* cell for an inside cell, the steps to the nearest inside cell for an outside
\* one, spread where there is none or it is farther
SignedDistance(i) ==
    LET others == IF i \in InsideCells THEN SdfCells \ InsideCells ELSE InsideCells
        near == {d \in 1..sdf.spread : \E j \in others : Steps(i, j) = d}
        d == IF near = {} THEN sdf.spread ELSE CHOOSE n \in near : \A k \in near : n <= k
    IN  IF i \in InsideCells THEN -d ELSE d

\* floor(255 * (d / spread + 1) / 2)
Remapped(d, spread) == (255 * (d + spread)) \div (2 * spread)

\* C16: a cell is inside iff its coverage is greater than 127; its value is the
\* linear remap to 0..255 of the signed distance (minus for inside) clamped to
\* -spread..spread, to within the rounding of the float quotient: 255 at spread or
\* more outside, 0 at spread or more inside, so 255 everywhere for a bitmap all
\* outside and 0 everywhere for one all inside; and the remap takes 0 to 127
C16_SignedDistanceRemap ==
    /\ \A spread \in Spreads : SdfByte(F32Zero, spread) = 127
    /\ SdfReturned =>
          /\ Len(sdf.sdf) = sdf.w * sdf.h
          /\ \A i \in SdfCells :
                /\ sdf.sdf[i] \in {Remapped(SignedDistance(i), sdf.spread),
                                   Remapped(SignedDistance(i), sdf.spread) - 1}
                /\ SignedDistance(i) = sdf.spread => sdf.sdf[i] = 255
                /\ SignedDistance(i) = -sdf.spread => sdf.sdf[i] = 0
          /\ InsideCells = {} => \A i \in SdfCells : sdf.sdf[i] = 255
          /\ InsideCells = SdfCells => \A i \in SdfCells : sdf.sdf[i] = 0

\* a bitmap with cells at the threshold and above it, with cells nearer than
\* spread and cells at spread or farther on both sides
C16_Witness ==
    /\ SdfReturned
    /\ \E i \in SdfCells : sdf.bitmap[i] = 127
    /\ \E i \in InsideCells : SignedDistance(i) = -sdf.spread /\ sdf.sdf[i] = 0
    /\ \E i \in InsideCells : SignedDistance(i) > -sdf.spread
    /\ \E i \in SdfCells \ InsideCells : SignedDistance(i) = sdf.spread /\ sdf.sdf[i] = 255
    /\ \E i \in SdfCells \ InsideCells : SignedDistance(i) < sdf.spread

\* cell i is inside with an outside 4-neighbour, or outside with an inside one
Boundary(i) == \E j \in SdfCells : Steps(i, j) = 1 /\ (i \in InsideCells) # (j \in InsideCells)

RECURSIVE Payloads(_, _)
Payloads(stream, p) ==
    IF p + 4 > Len(stream) - 4 THEN <<>>
    ELSE SubSeq(stream, p + 5, p + 4 + stream[p + 1] + 256 * stream[p + 2])
             \o (IF stream[p] % 2 = 1 THEN <<>>
                 ELSE Payloads(stream, p + 5 + stream[p + 1] + 256 * stream[p + 2]))

Inflated(stream) == Payloads(stream, 3)

\* byte i (from 0) of row y of the image rebuilt from a filtered stream: the
\* filtered byte plus the rebuilt byte 3 to its left, modulo 256
RECURSIVE Recon(_, _, _, _)
Recon(filtered, width, y, i) ==
    (filtered[y * (width * 3 + 1) + i + 2]
        + (IF i >= 3 THEN Recon(filtered, width, y, i - 3) ELSE 0)) % 256

Unfiltered(filtered, width, height) ==
    [k \in 1..(width * height * 3) |->
        Recon(filtered, width, (k - 1) \div (width * 3), (k - 1) % (width * 3))]

\* the sum of data[lo..hi] and the sum of (Len(data) - i + 1) * data[i] over
\* lo..hi, modulo 65521
RECURSIVE SumMod(_, _, _)
SumMod(data, lo, hi) ==
    IF lo > hi THEN 0
    ELSE IF lo = hi THEN data[lo]
    ELSE (SumMod(data, lo, (lo + hi) \div 2) + SumMod(data, ((lo + hi) \div 2) + 1, hi)) % 65521

RECURSIVE WeightedSumMod(_, _, _)
WeightedSumMod(data, lo, hi) ==
    IF lo > hi THEN 0
    ELSE IF lo = hi THEN (((Len(data) - lo + 1) % 65521) * data[lo]) % 65521
    ELSE (WeightedSumMod(data, lo, (lo + hi) \div 2)
            + WeightedSumMod(data, ((lo + hi) \div 2) + 1, hi)) % 65521

\* Adler-32 of data, most significant byte first: B = n + sum of (n - i + 1) * d[i]
\* above A = 1 + sum of d[i], both modulo 65521
RefAdler32(data) ==
    <<(((Len(data) % 65521) + WeightedSumMod(data, 1, Len(data))) % 65521) \div 256,
      (((Len(data) % 65521) + WeightedSumMod(data, 1, Len(data))) % 65521) % 256,
      ((1 + SumMod(data, 1, Len(data))) % 65521) \div 256,
      ((1 + SumMod(data, 1, Len(data))) % 65521) % 256>>

\* the block loop is over and the checksum appended
ZlibDone == zlib.at = "done"

\* C21: the data of the stored blocks of the stream glyph_write_png builds is a
\* filter type 1 and 3 * width bytes for each row; adding to each byte the rebuilt
\* byte one pixel to its left, modulo 256, gives back the width * height * 3 bytes
\* of the image; and the last 4 bytes of the stream are the Adler-32 of that data
C21_RoundTrip ==
    ZlibDone =>
        /\ Len(Inflated(zlib.comp)) = (zlib.image.width * 3 + 1) * zlib.image.height
        /\ \A y \in 0..(zlib.image.height - 1) :
              Inflated(zlib.comp)[y * (zlib.image.width * 3 + 1) + 1] = 1
        /\ Unfiltered(Inflated(zlib.comp), zlib.image.width, zlib.image.height)
               = zlib.image.pixels
        /\ SubSeq(zlib.comp, Len(zlib.comp) - 3, Len(zlib.comp))
               = RefAdler32(Inflated(zlib.comp))

\* a stream of more than one block, of an image with a byte smaller than the byte
\* one pixel to its left
C21_Witness ==
    /\ ZlibDone
    /\ zlib.raw_size > StoredBlockMax
    /\ zlib.comp[3] = 0
    /\ \E i \in 4..(zlib.image.width * 3) : zlib.image.pixels[i] < zlib.image.pixels[i - 3]

\* the stored blocks of a zlib stream from position p to the 4 bytes of the
\* checksum: of each, the final bit, LEN, NLEN and the data
RECURSIVE Blocks(_, _)
Blocks(stream, p) ==
    IF p + 4 > Len(stream) - 4 THEN <<>>
    ELSE <<[final |-> stream[p] % 2,
            type |-> stream[p] \div 2,
            len |-> stream[p + 1] + 256 * stream[p + 2],
            nlen |-> stream[p + 3] + 256 * stream[p + 4],
            data |-> SubSeq(stream, p + 5, p + 4 + stream[p + 1] + 256 * stream[p + 2])]>>
             \o Blocks(stream, p + 5 + stream[p + 1] + 256 * stream[p + 2])

\* the 2-byte header, then blocks of type stored with LEN <= 65535 and NLEN its
\* 16-bit one's complement, whose data is the filtered stream, the last alone final
StoredStream(stream, filtered) ==
    /\ SubSeq(stream, 1, 2) = <<120, 1>>
    /\ \A k \in 1..Len(Blocks(stream, 3)) :
          /\ Blocks(stream, 3)[k].type = 0
          /\ Blocks(stream, 3)[k].len <= 65535
          /\ Blocks(stream, 3)[k].len + Blocks(stream, 3)[k].nlen = 65535
          /\ Len(Blocks(stream, 3)[k].data) = Blocks(stream, 3)[k].len
          /\ Blocks(stream, 3)[k].final = (IF k = Len(Blocks(stream, 3)) THEN 1 ELSE 0)
    /\ Flatten([k \in 1..Len(Blocks(stream, 3)) |-> Blocks(stream, 3)[k].data]) = filtered

\* C25: for every image, one of height 0 included, the stream is the header and a
\* non-empty sequence of stored blocks, each with LEN <= 65535 and NLEN the
\* complement of LEN, whose data is the filtered stream, the last alone final
C25_NonEmptyStoredBlocks ==
    ZlibDone => /\ StoredStream(zlib.comp, zlib.raw)
                /\ Blocks(zlib.comp, 3) # <<>>

\* the same of every image whose filtered stream is not empty
C25_BlocksOfNonEmptyStream ==
    ZlibDone /\ zlib.raw_size > 0 => /\ StoredStream(zlib.comp, zlib.raw)
                                    /\ Blocks(zlib.comp, 3) # <<>>

\* ceil(n / 65535)
CeilBlocks(n) == IF n % 65535 = 0 THEN n \div 65535 ELSE (n \div 65535) + 1

\* C30: from the allocation of comp on, comp_pos is the number of bytes written
\* and never exceeds comp_cap = 2 + raw_size + 5 * ceil(raw_size / 65535) + 4,
\* raw_pos never exceeds raw_size, and comp_pos is comp_cap once the checksum is
\* appended
C30_PositionsWithinCapacity ==
    zlib.at \in {"blocks", "done"} =>
        /\ zlib.comp_cap = 2 + zlib.raw_size + 5 * CeilBlocks(zlib.raw_size) + 4
        /\ zlib.comp_pos = Len(zlib.comp)
        /\ zlib.comp_pos <= zlib.comp_cap
        /\ zlib.raw_pos <= zlib.raw_size
        /\ zlib.raw_pos + zlib.remaining = zlib.raw_size
        /\ zlib.at = "done" => zlib.comp_pos = zlib.comp_cap

\* between two iterations of the block loop: one full block written, more to come
C30_Witness ==
    /\ zlib.at = "blocks"
    /\ zlib.raw_pos = 65535
    /\ zlib.remaining > 0
    /\ zlib.comp_pos = 2 + 5 + 65535

(***************************************************************************)
(* What the claims about crc32 speak of.                                   *)
(***************************************************************************)
\* thread t has returned from a call of crc32
Returned(t) == threads[t].pc = "idle" /\ threads[t].calls > 0

\* 0xAE426082, least significant byte first
IendCrc == <<130, 96, 66, 174>>

\* C22: whatever the number of calls before it, a call of crc32 returns the CRC-32
\* of its input computed bit by bit (reflected polynomial 0xEDB88320, initial value
\* and final XOR 0xFFFFFFFF, modulo 2^32), its register holding that of the bytes
\* read so far at every iteration; for the 4 bytes IEND it returns 0xAE426082
C22_TableMatchesBitwise ==
    \A t \in 1..Len(threads) :
        /\ threads[t].pc = "loop" =>
              threads[t].crc = RefCrcFrom(threads[t].data, 1, threads[t].k, AllOnes32)
        /\ Returned(t) =>
              /\ threads[t].result = RefCrc32(threads[t].data)
              /\ threads[t].result = crc32(crc32_table, threads[t].data)
              /\ threads[t].data = TypeIEND => threads[t].result = IendCrc

\* a second call, with the table already there, has returned the CRC of IEND
C22_Witness ==
    /\ Len(threads) = 1
    /\ Returned(1)
    /\ threads[1].calls = 2
    /\ threads[1].data = TypeIEND
    /\ threads[1].result = IendCrc

\* thread t is inside the body of crc32_init_table, past its test of the flag
Initialising(t) == threads[t].pc \in {"fill", "set"}

\* C23: over the calls of one thread, the body of crc32_init_table runs only in
\* the first call, and no step taken with the flag set writes an entry of the
\* table or the flag, or enters that body
C23_TableComputedOnce ==
    [][/\ \A t \in 1..Len(threads) : Initialising(t)' => threads'[t].calls = 0
       /\ crc32_table_inited # 0 =>
             /\ crc32_table' = crc32_table
             /\ crc32_table_inited' = crc32_table_inited
             /\ \A t \in 1..Len(threads) : ~Initialising(t)']_vars

\* the second call of the thread reads the table the first call filled
C23_Witness ==
    /\ Len(threads) = 1
    /\ threads[1].calls = 1
    /\ threads[1].pc = "loop"
    /\ threads[1].k > 0
    /\ crc32_table_inited = 1
    /\ crc32_table = crc32_init_table

\* C27: with threads interleaved at every access to the flag and to the table,
\* a thread reads the table only when every entry holds its final value, its
\* register is the CRC-32 of the bytes it has read and it returns the CRC-32 of
\* its input; a write to an entry writes its final value; a call that finds the
\* flag set goes to its loop without writing; and once the flag is set and no
\* thread is left inside crc32_init_table, no step writes the table or the flag
C27_ConcurrentFirstCalls ==
    /\ [](\A t \in 1..Len(threads) :
            /\ threads[t].pc = "loop" =>
                  /\ crc32_table = crc32_init_table
                  /\ threads[t].crc = RefCrcFrom(threads[t].data, 1, threads[t].k, AllOnes32)
            /\ Returned(t) => threads[t].result = RefCrc32(threads[t].data))
    /\ [][/\ \A i \in 0..255 : crc32_table'[i] \in {crc32_table[i], crc32_init_table[i]}
          /\ \A t \in 1..Len(threads) :
                threads[t].pc = "test" /\ threads'[t].pc # "test" /\ crc32_table_inited # 0
                    => threads'[t].pc = "loop"
          /\ crc32_table_inited # 0 /\ (\A t \in 1..Len(threads) : ~Initialising(t)) =>
                /\ crc32_table' = crc32_table
                /\ crc32_table_inited' = crc32_table_inited
                /\ \A t \in 1..Len(threads) : ~Initialising(t)']_vars

\* one thread has set the flag and reads the table while the other, which found
\* the flag clear, is still filling it
C27_Witness ==
    /\ Len(threads) = 2
    /\ crc32_table_inited = 1
    /\ threads[1].pc = "fill" /\ threads[1].i = 100 /\ threads[1].calls = 0
    /\ threads[2].pc = "loop" /\ threads[2].k = 1 /\ threads[2].calls = 0

(***************************************************************************)
(* File handles.                                                           *)
(***************************************************************************)
\* C24: whichever way glyph_write_bmp or glyph_write_png ends, allocation failure
\* included, every handle it opened has been closed: none is left open
C24_HandlesReleased == wr.op # "none" => openFiles = 0

(***************************************************************************)
(* What the claim about the flag loop speaks of.                           *)
(***************************************************************************)
\* a flag table written out: each flag byte once, and count times more when it
\* has the repeat bit, until at least need flags are there
RECURSIVE Expanded(_, _, _)
Expanded(data, pos, need) ==
    IF need <= 0 THEN <<>>
    ELSE IF (data[pos] \div 8) % 2 = 1
    THEN [k \in 1..(1 + data[pos + 1]) |-> data[pos]]
             \o Expanded(data, pos + 2, need - 1 - data[pos + 1])
    ELSE <<data[pos]>> \o Expanded(data, pos + 1, need - 1)

\* C26: the flag loop never writes past cell n_points - 1 of point_flags, what it
\* has written is the start of the flag table written out, every iteration writes
\* at least one cell more, so that the loop ends within n_points iterations, and
\* it ends with exactly n_points flags: the first n_points of the table written out
C26_FlagsExpanded ==
    /\ [](decoded.at # "none" =>
            /\ Len(decoded.point_flags) <= decoded.n_points
            /\ decoded.point_flags
                   = SubSeq(Expanded(decoded.data, 1, decoded.n_points), 1,
                            Len(decoded.point_flags))
            /\ decoded.at = "done" =>
                  /\ Len(decoded.point_flags) = decoded.n_points
                  /\ decoded.point_flags
                         = ReadFlags(decoded.data, 0, <<>>, decoded.n_points).point_flags
                  /\ decoded.data_index
                         = ReadFlags(decoded.data, 0, <<>>, decoded.n_points).data_index)
    /\ [][decoded.at = "loop" /\ decoded'.at = "loop" =>
             Len(decoded'.point_flags) > Len(decoded.point_flags)]_vars

\* a run of 255 repeats was cut at the last cell, after a flag without repeat
C26_Witness ==
    /\ decoded.at = "done"
    /\ decoded.n_points = 4
    /\ SubSeq(decoded.data, 1, 3) = <<55, 9, 255>>
    /\ decoded.point_flags = <<55, 9, 9, 9>>
    /\ decoded.data_index = 3

(***************************************************************************)
(* The two distance fields.                                                *)
(***************************************************************************)
\* the fewest steps from cell i to a cell of seeds
NearestSteps(i, seeds) ==
    CHOOSE d \in 0..(sdf.w + sdf.h) :
        /\ \E j \in seeds : Steps(i, j) = d
        /\ \A j \in seeds : Steps(i, j) >= d

\* what the passes should leave in cell i of the field seeded with seeds
FieldValue(dt, i, seeds) ==
    IF seeds = {} THEN ~F32Less(dt[i], F32Far) ELSE dt[i] = F32FromInt(NearestSteps(i, seeds))

\* C28: after the row passes and the column passes, each cell of dt1 holds the
\* Manhattan distance to the nearest inside cell and each cell of dt0 that to the
\* nearest outside cell; a field without a seed holds at least 1e9 everywhere
C28_PassesGiveManhattan ==
    SdfReturned =>
        /\ Len(sdf.dt1) = sdf.w * sdf.h /\ Len(sdf.dt0) = sdf.w * sdf.h
        /\ \A i \in SdfCells :
              /\ FieldValue(sdf.dt1, i, InsideCells)
              /\ FieldValue(sdf.dt0, i, SdfCells \ InsideCells)

\* the one inside cell is in a corner of a 3 x 3 bitmap: the opposite corner is 4
\* steps away, two along its row and two along its column
C28_Witness ==
    /\ SdfReturned
    /\ sdf.w = 3 /\ sdf.h = 3
    /\ InsideCells = {1}
    /\ sdf.dt1[9] = F32FromInt(4)
    /\ sdf.dt1[5] = F32FromInt(2)
    /\ sdf.dt0[1] = F32One

(***************************************************************************)
(* What the claim about the stopwatch speaks of.                           *)
(***************************************************************************)
\* a frame: the presses of Space toggle between stopped and running; the time
\* shown does not decrease; it is unchanged by a frame drawn stopped; a frame
\* that resumes takes the time shown at the stop as its base
FrameKeepsTime ==
    watch.at = "loop" /\ watch'.at = "loop" =>
        /\ watch'.order_time_stop = (IF watch'.presses % 2 = 1 THEN ~watch.order_time_stop
                                     ELSE watch.order_time_stop)
        /\ watch'.output_time >= watch.output_time
        /\ watch'.order_time_stop => watch'.output_time = watch.output_time
        /\ ~watch'.order_time_stop /\ watch'.presses > 0 =>
              /\ watch'.saved_time = watch.output_time
              /\ watch'.output_time = watch.output_time + (watch'.now - watch'.start_time)

\* C29: every frame keeps the time as above, and the time shown is never more
\* than the time passed with the stopwatch running
C29_StopwatchMonotone ==
    /\ [][FrameKeepsTime]_vars
    /\ [](watch.at # "none" => watch.output_time <= watch.ran)

\* the same of the frames of a run in which no reading of the clock lay before the
\* one before it
C29_WithSteadyClock ==
    /\ [][~watch'.back => FrameKeepsTime]_vars
    /\ [](watch.at # "none" /\ ~watch.back => watch.output_time <= watch.ran)
====
